---- MODULE Spec2Model ----
(***************************************************************************)
(* Consistency core of kodebase core: the lifecycle state machine, the     *)
(* event-order validator, the event builder and the cascade engine.        *)
(* Lifecycle states, triggers and artifact types are the strings of        *)
(* constants.ts; an event record is a TLA+ record whose optional keys      *)
(* (metadata) are present or absent as in the TypeScript object.           *)
(***************************************************************************)
EXTENDS Integers, Sequences, FiniteSets, TLC

VARIABLES
    artifactType,   \* pipeline: type of the artifact whose history is extended
    events,         \* pipeline: metadata.events of that artifact
    lastError,      \* pipeline: name/code of the error the last step raised
    smType,         \* state machine call: artifactType argument
    smFrom,         \* state machine call: fromState / currentState argument
    smTo,           \* state machine call: toState argument
    smCalled,       \* state machine call: which functions have returned
    smCan,          \* result of canTransition
    smValid,        \* result of getValidTransitions
    smError,        \* outcome of assertTransition
    ordEvents,      \* validateEventOrder call: the events argument
    ordCalled,      \* validateEventOrder call: has it returned or raised
    ordResult,      \* outcome of validateEventOrder
    ebArgs,         \* createEvent call: the CreateEventArgs object
    ebClock,        \* createEvent call: what the system clock reads
    ebCalled,       \* createEvent call: has it returned or raised
    ebResult,       \* outcome of createEvent
    casChildren,    \* shouldCascadeToParent call: the children argument
    casParentState, \* shouldCascadeToParent call: parentState, or Undefined
    casCalled,      \* shouldCascadeToParent call: has it returned
    casDecision,    \* the CascadeDecision it returned
    casBefore,      \* deep copy of the children taken before the last call
    casLog,         \* the calls made so far: arguments and decision of each
    sysArgs,        \* arguments of the last generateCascadeEvent call
    sysEvent,       \* outcome of the last generateCascadeEvent call
    dependent,      \* the artifact handed to resolveDependencyCompletion
    resolution,     \* what the last resolveDependencyCompletion call reported
    depCaller,      \* what the caller of that call holds: its argument as it
                    \* is now, the deep copy taken before the call, the
                    \* artifact returned, the event objects both share
    artifacts,      \* detectCircularDependencies call: the artifacts Map, as
                    \* its entries [id, artifact] in insertion order
    valCalled,      \* detectCircularDependencies call: has it returned
    circularIssues, \* the CircularDependencyIssue[] it returned
    crossLevelIssues,   \* what detectCrossLevelDependencies returned
    consistencyIssues,  \* what validateRelationshipConsistency returned
    enfArgs,        \* enforceRelationshipConstraints call: artifactType,
                    \* metadata and options
    enfCalled,      \* enforceRelationshipConstraints call: has it ended
    enfResult       \* its outcome: returned, or the error it raised

pipeVars == <<artifactType, events, lastError>>
smVars == <<smType, smFrom, smTo, smCalled, smCan, smValid, smError>>
ordVars == <<ordEvents, ordCalled, ordResult>>
ebVars == <<ebArgs, ebClock, ebCalled, ebResult>>
casVars == <<casChildren, casParentState, casCalled, casDecision,
             casBefore, casLog>>
sysVars == <<sysArgs, sysEvent, dependent, resolution, depCaller>>
valVars == <<artifacts, valCalled, circularIssues, crossLevelIssues,
             consistencyIssues>>
enfVars == <<enfArgs, enfCalled, enfResult>>
vars == <<pipeVars, smVars, ordVars, ebVars, casVars, sysVars, valVars,
          enfVars>>

----------------------------------------------------------------------------
(* Generic sequence helpers (Array.prototype.includes / Set of elements).  *)

Range(s) == {s[i] : i \in 1..Len(s)}

includes(s, x) == \E i \in 1..Len(s) : s[i] = x

SeqsUpTo(S, n) == UNION {[1..k -> S] : k \in 0..n}

\* s with x put at position k, and s without its element at position k.
InsertAt(s, k, x) == SubSeq(s, 1, k - 1) \o <<x>> \o SubSeq(s, k, Len(s))
RemoveAt(s, k) == SubSeq(s, 1, k - 1) \o SubSeq(s, k + 1, Len(s))

----------------------------------------------------------------------------
(* constants.ts                                                            *)

ARTIFACT_EVENTS ==
    <<"draft", "ready", "blocked", "cancelled",
      "in_progress", "in_review", "completed", "archived">>

EVENT_TRIGGERS ==
    <<"artifact_created", "dependencies_met", "has_dependencies",
      "branch_created", "pr_ready", "pr_merged", "dependency_completed",
      "children_started", "children_completed", "parent_completed",
      "parent_archived", "manual_cancel">>

ARTIFACT_TYPES == <<"initiative", "milestone", "issue">>

----------------------------------------------------------------------------
(* state-machine.ts                                                        *)

\* Mutant: a milestone in draft may become blocked, as an issue may.
STATE_TRANSITIONS_MilestoneBlocked ==
    LET shared ==
          [draft       |-> <<"ready", "cancelled">>,
           blocked     |-> <<"ready", "cancelled">>,
           ready       |-> <<"in_progress", "cancelled">>,
           in_progress |-> <<"in_review", "cancelled">>,
           in_review   |-> <<"completed", "cancelled">>,
           completed   |-> <<>>,
           cancelled   |-> <<"draft", "archived">>,
           archived    |-> <<>>]
    IN [issue      |-> [shared EXCEPT !.draft = <<"ready", "blocked", "cancelled">>],
        milestone  |-> [shared EXCEPT !.draft = <<"ready", "blocked", "cancelled">>],
        initiative |-> shared]

\* Mutant: a cancelled initiative cannot be reopened as a draft.
STATE_TRANSITIONS_InitiativeNoReopen ==
    LET shared ==
          [draft       |-> <<"ready", "cancelled">>,
           blocked     |-> <<"ready", "cancelled">>,
           ready       |-> <<"in_progress", "cancelled">>,
           in_progress |-> <<"in_review", "cancelled">>,
           in_review   |-> <<"completed", "cancelled">>,
           completed   |-> <<>>,
           cancelled   |-> <<"draft", "archived">>,
           archived    |-> <<>>]
    IN [issue      |-> [shared EXCEPT !.draft = <<"ready", "blocked", "cancelled">>],
        milestone  |-> shared,
        initiative |-> [shared EXCEPT !.cancelled = <<"archived">>]]

\* Mutant: the terminal entry of completed is given an outgoing transition.
STATE_TRANSITIONS_CompletedLeaves ==
    LET shared ==
          [draft       |-> <<"ready", "cancelled">>,
           blocked     |-> <<"ready", "cancelled">>,
           ready       |-> <<"in_progress", "cancelled">>,
           in_progress |-> <<"in_review", "cancelled">>,
           in_review   |-> <<"completed", "cancelled">>,
           completed   |-> <<"archived">>,
           cancelled   |-> <<"draft", "archived">>,
           archived    |-> <<>>]
    IN [issue      |-> [shared EXCEPT !.draft = <<"ready", "blocked", "cancelled">>],
        milestone  |-> shared,
        initiative |-> shared]

STATE_TRANSITIONS ==
    [issue |->
       [draft       |-> <<"ready", "blocked", "cancelled">>,
        blocked     |-> <<"ready", "cancelled">>,
        ready       |-> <<"in_progress", "cancelled">>,
        in_progress |-> <<"in_review", "cancelled">>,
        in_review   |-> <<"completed", "cancelled">>,
        completed   |-> <<>>,
        cancelled   |-> <<"draft", "archived">>,
        archived    |-> <<>>],
     milestone |->
       [draft       |-> <<"ready", "cancelled">>,
        blocked     |-> <<"ready", "cancelled">>,
        ready       |-> <<"in_progress", "cancelled">>,
        in_progress |-> <<"in_review", "cancelled">>,
        in_review   |-> <<"completed", "cancelled">>,
        completed   |-> <<>>,
        cancelled   |-> <<"draft", "archived">>,
        archived    |-> <<>>],
     initiative |->
       [draft       |-> <<"ready", "cancelled">>,
        blocked     |-> <<"ready", "cancelled">>,
        ready       |-> <<"in_progress", "cancelled">>,
        in_progress |-> <<"in_review", "cancelled">>,
        in_review   |-> <<"completed", "cancelled">>,
        completed   |-> <<>>,
        cancelled   |-> <<"draft", "archived">>,
        archived    |-> <<>>]]

\* Mutant: a transition to the state the artifact is already in is accepted.
canTransition_AllowsSelf(type, fromState, toState) ==
    IF type \notin DOMAIN STATE_TRANSITIONS THEN FALSE
    ELSE IF fromState \notin DOMAIN STATE_TRANSITIONS[type] THEN FALSE
    ELSE toState = fromState
         \/ includes(STATE_TRANSITIONS[type][fromState], toState)

canTransition(type, fromState, toState) ==
    IF type \notin DOMAIN STATE_TRANSITIONS THEN FALSE
    ELSE LET transitions == STATE_TRANSITIONS[type] IN
         IF fromState \notin DOMAIN transitions THEN FALSE
         ELSE includes(transitions[fromState], toState)

\* The de-duplicating loop of getValidTransitions: result so far, next index.
RECURSIVE DedupeFrom(_, _, _)
DedupeFrom(next, i, result) ==
    IF i > Len(next) THEN result
    ELSE IF includes(result, next[i])
         THEN DedupeFrom(next, i + 1, result)
         ELSE DedupeFrom(next, i + 1, Append(result, next[i]))

getValidTransitions(type, currentState) ==
    IF type \notin DOMAIN STATE_TRANSITIONS THEN <<>>
    ELSE LET transitions == STATE_TRANSITIONS[type]
             next == IF currentState \in DOMAIN transitions
                     THEN transitions[currentState] ELSE <<>>
         IN DedupeFrom(next, 1, <<>>)

NoError == [name |-> "none"]

\* Mutant: the guard is inverted, so legal transitions raise and illegal
\* ones return.
assertTransition_Inverted(type, fromState, toState) ==
    IF ~canTransition(type, fromState, toState) THEN NoError
    ELSE [name             |-> "StateTransitionError",
          artifactType     |-> type,
          fromState        |-> fromState,
          toState          |-> toState,
          validTransitions |-> getValidTransitions(type, fromState)]

\* The value is NoError when the call returns, the raised error otherwise.
assertTransition(type, fromState, toState) ==
    IF canTransition(type, fromState, toState) THEN NoError
    ELSE [name             |-> "StateTransitionError",
          artifactType     |-> type,
          fromState        |-> fromState,
          toState          |-> toState,
          validTransitions |-> getValidTransitions(type, fromState)]

----------------------------------------------------------------------------
(* Timestamps.  A timestamp is the string the event carries.  Date parsing *)
(* (new Date(ts).getTime()) is a table over the strings the model uses:    *)
(* the value is the instant in milliseconds counted from                   *)
(* 2025-10-31T13:00:00.000Z (an order-preserving shift of the epoch), or   *)
(* NaN for a string Date cannot parse.                                     *)

NaN == -1

T1300 == "2025-10-31T13:00:00Z"
T1305 == "2025-10-31T13:05:00Z"
T1310 == "2025-10-31T13:10:00Z"
T1300Offset == "2025-10-31T15:00:00+02:00"   \* the instant of T1300
TBadMonth == "2025-13-01T00:00:00Z"          \* matches the ISO shape, no date
TGarbage == "not-a-date"

IsoTimestamps == {T1300, T1305, T1310}
ParseableTimestamps == IsoTimestamps \cup {T1300Offset}
UnparseableTimestamps == {TBadMonth, TGarbage}
AllTimestamps == ParseableTimestamps \cup UnparseableTimestamps

getTime(ts) ==
    CASE ts = T1300       -> 0
      [] ts = T1300Offset -> 0
      [] ts = T1305       -> 300000
      [] ts = T1310       -> 600000
      [] OTHER            -> NaN

isNaN(t) == t = NaN

\* Date readings the clock can give: instants with a sub-second part.
ClockReadings == {0, 300750, 600999}

\* d.toISOString().replace(/\.\d{3}Z$/, "Z"): the milliseconds are dropped.
nowIsoUtcSeconds(clock) ==
    LET second == clock \div 1000 IN
    CASE second = 0   -> T1300
      [] second = 300 -> T1305
      [] second = 600 -> T1310

----------------------------------------------------------------------------
(* event-order.ts                                                          *)

NoOrderError == [code |-> "none"]

\* The loop of validateEventOrder from index i (1-based position i + 1 of
\* the 0-based index i): the first strictly decreasing parseable pair.
RECURSIVE OrderLoop(_, _)
OrderLoop(evs, i) ==
    IF i >= Len(evs) THEN NoOrderError
    ELSE LET prev == evs[i]
             curr == evs[i + 1]
             prevTime == getTime(prev.timestamp)
             currTime == getTime(curr.timestamp)
         IN IF isNaN(prevTime) \/ isNaN(currTime) THEN OrderLoop(evs, i + 1)
            ELSE IF currTime < prevTime
                 THEN [code          |-> "EVENTS_OUT_OF_ORDER",
                       index         |-> i,
                       prevTimestamp |-> prev.timestamp,
                       currTimestamp |-> curr.timestamp]
                 ELSE OrderLoop(evs, i + 1)

\* Mutant: equal adjacent timestamps are rejected as well (<= for <).
RECURSIVE OrderLoopStrict(_, _)
OrderLoopStrict(evs, i) ==
    IF i >= Len(evs) THEN NoOrderError
    ELSE LET prev == evs[i]
             curr == evs[i + 1]
             prevTime == getTime(prev.timestamp)
             currTime == getTime(curr.timestamp)
         IN IF isNaN(prevTime) \/ isNaN(currTime) THEN OrderLoopStrict(evs, i + 1)
            ELSE IF currTime <= prevTime
                 THEN [code          |-> "EVENTS_OUT_OF_ORDER",
                       index         |-> i,
                       prevTimestamp |-> prev.timestamp,
                       currTimestamp |-> curr.timestamp]
                 ELSE OrderLoopStrict(evs, i + 1)

validateEventOrder_Strict(evs) ==
    IF Len(evs) = 0 THEN [code |-> "EMPTY_EVENTS"]
    ELSE IF evs[1].event # "draft"
         THEN [code          |-> "FIRST_EVENT_MUST_BE_DRAFT",
               index         |-> 0,
               currTimestamp |-> evs[1].timestamp]
         ELSE OrderLoopStrict(evs, 1)

\* Mutant: break for continue: the loop ends at the first pair with a
\* timestamp that does not parse.
RECURSIVE OrderLoopBreak(_, _)
OrderLoopBreak(evs, i) ==
    IF i >= Len(evs) THEN NoOrderError
    ELSE LET prev == evs[i]
             curr == evs[i + 1]
             prevTime == getTime(prev.timestamp)
             currTime == getTime(curr.timestamp)
         IN IF isNaN(prevTime) \/ isNaN(currTime) THEN NoOrderError
            ELSE IF currTime < prevTime
                 THEN [code          |-> "EVENTS_OUT_OF_ORDER",
                       index         |-> i,
                       prevTimestamp |-> prev.timestamp,
                       currTimestamp |-> curr.timestamp]
                 ELSE OrderLoopBreak(evs, i + 1)

validateEventOrder_BreakOnUnparseable(evs) ==
    IF Len(evs) = 0 THEN [code |-> "EMPTY_EVENTS"]
    ELSE IF evs[1].event # "draft"
         THEN [code          |-> "FIRST_EVENT_MUST_BE_DRAFT",
               index         |-> 0,
               currTimestamp |-> evs[1].timestamp]
         ELSE OrderLoopBreak(evs, 1)

\* Mutant: the chronology loop runs before the draft check.
validateEventOrder_OrderFirst(evs) ==
    IF Len(evs) = 0 THEN [code |-> "EMPTY_EVENTS"]
    ELSE IF OrderLoop(evs, 1) # NoOrderError THEN OrderLoop(evs, 1)
    ELSE IF evs[1].event # "draft"
         THEN [code          |-> "FIRST_EVENT_MUST_BE_DRAFT",
               index         |-> 0,
               currTimestamp |-> evs[1].timestamp]
         ELSE NoOrderError

\* The value is NoOrderError when the call returns, the raised
\* EventOrderError (its code and details) otherwise.  Indexes are 0-based.
validateEventOrder(evs) ==
    IF Len(evs) = 0 THEN [code |-> "EMPTY_EVENTS"]
    ELSE IF evs[1].event # "draft"
         THEN [code          |-> "FIRST_EVENT_MUST_BE_DRAFT",
               index         |-> 0,
               currTimestamp |-> evs[1].timestamp]
         ELSE OrderLoop(evs, 1)

----------------------------------------------------------------------------
(* event-builder.ts                                                        *)

EVENT_TRIGGER_BY_EVENT ==
    [draft       |-> <<"artifact_created">>,
     ready       |-> <<"dependencies_met">>,
     blocked     |-> <<"has_dependencies">>,
     in_progress |-> <<"branch_created", "children_started">>,
     in_review   |-> <<"pr_ready", "children_completed">>,
     completed   |-> <<"pr_merged">>,
     cancelled   |-> <<"manual_cancel">>,
     archived    |-> <<"parent_completed", "parent_archived">>]

\* Mutant: only the first allowed trigger of a state is accepted.
assertEventTrigger_FirstOnly(event, trigger) ==
    IF event \notin DOMAIN EVENT_TRIGGER_BY_EVENT THEN NoError
    ELSE LET allowed == EVENT_TRIGGER_BY_EVENT[event] IN
         IF Len(allowed) = 0 THEN NoError
         ELSE IF allowed[1] # trigger
              THEN [name    |-> "InvalidTrigger",
                    event   |-> event,
                    trigger |-> trigger,
                    allowed |-> allowed]
              ELSE NoError

assertEventTrigger(event, trigger) ==
    IF event \notin DOMAIN EVENT_TRIGGER_BY_EVENT THEN NoError
    ELSE LET allowed == EVENT_TRIGGER_BY_EVENT[event] IN
         IF Len(allowed) = 0 THEN NoError
         ELSE IF ~includes(allowed, trigger)
              THEN [name    |-> "InvalidTrigger",
                    event   |-> event,
                    trigger |-> trigger,
                    allowed |-> allowed]
              ELSE NoError

\* The object createEvent returns: metadata is a key only when it was given.
EventRecord(args, clock) ==
    LET base == [event     |-> args.event,
                 actor     |-> args.actor,
                 trigger   |-> args.trigger,
                 timestamp |-> IF "timestamp" \in DOMAIN args
                               THEN args.timestamp
                               ELSE nowIsoUtcSeconds(clock)]
    IN IF "metadata" \in DOMAIN args
       THEN [k \in DOMAIN base \cup {"metadata"} |->
                IF k = "metadata" THEN args.metadata ELSE base[k]]
       ELSE base

\* Mutant: the trigger/state compatibility check is left out.
createEvent_NoTriggerCheck(args, clock) ==
    IF "trigger" \notin DOMAIN args \/ args.trigger = ""
    THEN [ok |-> FALSE, error |-> [name |-> "MissingTrigger"]]
    ELSE [ok |-> TRUE, value |-> EventRecord(args, clock)]

\* args: the CreateEventArgs object (trigger, timestamp and metadata are
\* optional keys); clock: what new Date() reads if no timestamp is given.
\* The value is [ok |-> TRUE, value |-> event] or [ok |-> FALSE, error |-> e].
createEvent(args, clock) ==
    IF "trigger" \notin DOMAIN args \/ args.trigger = ""
    THEN [ok |-> FALSE, error |-> [name |-> "MissingTrigger"]]
    ELSE LET check == assertEventTrigger(args.event, args.trigger) IN
         IF check # NoError THEN [ok |-> FALSE, error |-> check]
         ELSE [ok |-> TRUE, value |-> EventRecord(args, clock)]

\* The object with the keys of a whose value is not undefined: createEvent
\* treats a key holding undefined as a key that is absent.
Undefined == "<undefined>"
NoMetadata == [undefined |-> TRUE]

Defined(a) ==
    LET keys == {k \in DOMAIN a :
                    IF k = "metadata" THEN a[k] # NoMetadata
                    ELSE a[k] # Undefined}
    IN [k \in keys |-> a[k]]

\* The fixed-trigger constructors.  timestamp is a string or Undefined,
\* metadata a record or NoMetadata.
FixedTriggerEvent(event, trigger, actor, timestamp, metadata, clock) ==
    createEvent(Defined([event     |-> event,
                         actor     |-> actor,
                         trigger   |-> trigger,
                         timestamp |-> timestamp,
                         metadata  |-> metadata]), clock)

createDraftEvent(actor, timestamp, metadata, clock) ==
    FixedTriggerEvent("draft", "artifact_created",
                      actor, timestamp, metadata, clock)

createReadyEvent(actor, timestamp, metadata, clock) ==
    FixedTriggerEvent("ready", "dependencies_met",
                      actor, timestamp, metadata, clock)

createInProgressEvent(actor, timestamp, metadata, clock) ==
    FixedTriggerEvent("in_progress", "branch_created",
                      actor, timestamp, metadata, clock)

createInReviewEvent(actor, timestamp, metadata, clock) ==
    FixedTriggerEvent("in_review", "pr_ready",
                      actor, timestamp, metadata, clock)

createCompletedEvent(actor, timestamp, metadata, clock) ==
    FixedTriggerEvent("completed", "pr_merged",
                      actor, timestamp, metadata, clock)

createCancelledEvent(actor, timestamp, metadata, clock) ==
    FixedTriggerEvent("cancelled", "manual_cancel",
                      actor, timestamp, metadata, clock)

createArchivedEvent(actor, cause, timestamp, metadata, clock) ==
    IF cause # "parent_completed" /\ cause # "parent_archived"
    THEN [ok |-> FALSE, error |-> [name |-> "InvalidArchivedCause"]]
    ELSE FixedTriggerEvent("archived", cause,
                           actor, timestamp, metadata, clock)

\* ISO_UTC_REGEX.test(ts), over the timestamp strings of the model.
MatchesIsoUtc(ts) == ts \in IsoTimestamps \cup {TBadMonth}

\* d.resolved_at is truthy: the key is there and its string is not empty.
hasResolvedAt(d) == "resolved_at" \in DOMAIN d /\ d.resolved_at # ""

\* One normalized blocking_dependencies entry; d has the key artifact_id
\* and optionally resolved and resolved_at.
NormalizedDependency(d) ==
    LET resolved == "resolved" \in DOMAIN d /\ d.resolved
        base == [artifact_id |-> d.artifact_id, resolved |-> resolved]
    IN IF hasResolvedAt(d)
       THEN [k \in DOMAIN base \cup {"resolved_at"} |->
                IF k = "resolved_at" THEN d.resolved_at ELSE base[k]]
       ELSE base

createBlockedEvent(actor, blockingDependencies, timestamp, clock) ==
    IF Len(blockingDependencies) = 0
    THEN [ok |-> FALSE, error |-> [name |-> "NoBlockingDependency"]]
    ELSE IF \E k \in 1..Len(blockingDependencies) :
               LET d == blockingDependencies[k] IN
               /\ "resolved" \in DOMAIN d /\ d.resolved
               /\ hasResolvedAt(d)
               /\ ~MatchesIsoUtc(d.resolved_at)
    THEN [ok |-> FALSE, error |-> [name |-> "InvalidResolvedAt"]]
    ELSE FixedTriggerEvent(
             "blocked", "has_dependencies", actor, timestamp,
             [blocking_dependencies |->
                 [k \in 1..Len(blockingDependencies) |->
                     NormalizedDependency(blockingDependencies[k])]],
             clock)

----------------------------------------------------------------------------
(* automation/cascade/engine.ts                                            *)

Null == "<null>"

isArtifactEvent(value) == includes(ARTIFACT_EVENTS, value)

\* Mutant: the event at index 1 is read instead of the last one.
getLatestState_SecondEvent(child) ==
    LET evs == child.metadata.events IN
    IF Len(evs) = 0 THEN Null
    ELSE LET tail == evs[IF Len(evs) >= 2 THEN 2 ELSE 1] IN
         IF ~isArtifactEvent(tail.event) THEN Null ELSE tail.event

\* child is the CascadeChild object: [metadata |-> [events |-> <<...>>]].
getLatestState(child) ==
    LET evs == child.metadata.events IN
    IF Len(evs) = 0 THEN Null
    ELSE LET tail == evs[Len(evs)] IN
         IF ~isArtifactEvent(tail.event) THEN Null ELSE tail.event

\* Mutant: the tail is taken with events.pop(), which shortens the array.
eventsAfterGetLatestState_Pop(child) ==
    LET evs == child.metadata.events IN
    IF Len(evs) = 0 THEN evs ELSE SubSeq(evs, 1, Len(evs) - 1)

\* The child's events array after getLatestState has run on it: the array
\* is indexed (events[events.length - 1]) and never written.
eventsAfterGetLatestState(child) == child.metadata.events

\* The children after the loop of shouldCascadeToParent has visited each.
childrenAfterShouldCascade(children) ==
    [i \in 1..Len(children) |->
        [metadata |-> [events |-> eventsAfterGetLatestState(children[i])]]]

formatRemainingChildren(count) ==
    IF count = 1 THEN "1 active child incomplete"
    ELSE ToString(count) \o " active children incomplete"

\* Mutant: only cancelled children are left out, archived ones are kept.
RECURSIVE CollectActive_ArchivedActive(_, _, _)
CollectActive_ArchivedActive(children, i, activeStates) ==
    IF i > Len(children) THEN activeStates
    ELSE LET state == getLatestState(children[i]) IN
         IF state # Null /\ state # "cancelled"
         THEN CollectActive_ArchivedActive(children, i + 1,
                                           Append(activeStates, state))
         ELSE CollectActive_ArchivedActive(children, i + 1, activeStates)

\* The loop that collects activeStates, from child i on.
RECURSIVE CollectActive(_, _, _)
CollectActive(children, i, activeStates) ==
    IF i > Len(children) THEN activeStates
    ELSE LET state == getLatestState(children[i]) IN
         IF state # Null /\ state # "cancelled" /\ state # "archived"
         THEN CollectActive(children, i + 1, Append(activeStates, state))
         ELSE CollectActive(children, i + 1, activeStates)

IsStarted(state) ==
    state = "in_progress" \/ state = "in_review" \/ state = "completed"

\* Mutant: the filter keeps every active state, completed ones as well.
IsIncomplete_CountsCompleted(state) == TRUE

IsIncomplete(state) == state # "completed"

\* Mutant: the test for an empty activeStates is left out.
shouldCascadeToParent_NoEmptyCheck(children, parentState) ==
    LET activeStates == CollectActive(children, 1, <<>>) IN
    IF \A i \in 1..Len(activeStates) : activeStates[i] = "completed"
    THEN [shouldCascade |-> TRUE,
          newState      |-> "in_review",
          reason        |-> "All active children completed"]
    ELSE IF parentState = "ready"
            /\ \E i \in 1..Len(activeStates) : IsStarted(activeStates[i])
    THEN [shouldCascade |-> TRUE,
          newState      |-> "in_progress",
          reason        |-> "First active child progressed"]
    ELSE [shouldCascade |-> FALSE,
          reason |-> formatRemainingChildren(
                         Len(SelectSeq(activeStates, IsIncomplete)))]

\* Mutant: the first-progressed rule is tried before the all-completed rule.
shouldCascadeToParent_StartedFirst(children, parentState) ==
    LET activeStates == CollectActive(children, 1, <<>>) IN
    IF Len(activeStates) = 0
    THEN [shouldCascade |-> FALSE, reason |-> "No active children to evaluate"]
    ELSE IF parentState = "ready"
            /\ \E i \in 1..Len(activeStates) : IsStarted(activeStates[i])
    THEN [shouldCascade |-> TRUE,
          newState      |-> "in_progress",
          reason        |-> "First active child progressed"]
    ELSE IF \A i \in 1..Len(activeStates) : activeStates[i] = "completed"
    THEN [shouldCascade |-> TRUE,
          newState      |-> "in_review",
          reason        |-> "All active children completed"]
    ELSE [shouldCascade |-> FALSE,
          reason |-> formatRemainingChildren(
                         Len(SelectSeq(activeStates, IsIncomplete)))]

\* Mutant: the first-progressed rule does not look at the parent's state.
shouldCascadeToParent_AnyParent(children, parentState) ==
    LET activeStates == CollectActive(children, 1, <<>>) IN
    IF Len(activeStates) = 0
    THEN [shouldCascade |-> FALSE, reason |-> "No active children to evaluate"]
    ELSE IF \A i \in 1..Len(activeStates) : activeStates[i] = "completed"
    THEN [shouldCascade |-> TRUE,
          newState      |-> "in_review",
          reason        |-> "All active children completed"]
    ELSE IF \E i \in 1..Len(activeStates) : IsStarted(activeStates[i])
    THEN [shouldCascade |-> TRUE,
          newState      |-> "in_progress",
          reason        |-> "First active child progressed"]
    ELSE [shouldCascade |-> FALSE,
          reason |-> formatRemainingChildren(
                         Len(SelectSeq(activeStates, IsIncomplete)))]

\* parentState is a lifecycle state, or Undefined when the argument is
\* left out.
shouldCascadeToParent(children, parentState) ==
    LET activeStates == CollectActive(children, 1, <<>>) IN
    IF Len(activeStates) = 0
    THEN [shouldCascade |-> FALSE, reason |-> "No active children to evaluate"]
    ELSE IF \A i \in 1..Len(activeStates) : activeStates[i] = "completed"
    THEN [shouldCascade |-> TRUE,
          newState      |-> "in_review",
          reason        |-> "All active children completed"]
    ELSE IF parentState = "ready"
            /\ \E i \in 1..Len(activeStates) : IsStarted(activeStates[i])
    THEN [shouldCascade |-> TRUE,
          newState      |-> "in_progress",
          reason        |-> "First active child progressed"]
    ELSE [shouldCascade |-> FALSE,
          reason |-> formatRemainingChildren(
                         Len(SelectSeq(activeStates, IsIncomplete)))]

----------------------------------------------------------------------------
(* The event-producing half of the cascade engine (generateCascadeEvent,   *)
(* resolveDependencyCompletion).  Its source is not part of the sources    *)
(* at hand: it is modelled from the design document, with the actor, the   *)
(* timestamps and the archived trigger as engine.test.ts observes them.    *)

CascadeActor == "System Cascade (cascade@completion)"

\* Mutant: completed is cascaded too, with the trigger of a merge.
CascadeTrigger_CompletedSupported(newState, cascadeType) ==
    CASE newState = "ready"       -> "dependency_completed"
      [] newState = "in_progress" -> "children_started"
      [] newState = "in_review"   -> "children_completed"
      [] newState = "completed"   -> "pr_merged"
      [] newState = "archived"    ->
            IF cascadeType = "parent_completion_archive"
            THEN "parent_completed" ELSE "parent_archived"
      [] OTHER                    -> Null

\* Mutant: an archived event has trigger parent_archived whatever caused it.
CascadeTrigger_AlwaysParentArchived(newState, cascadeType) ==
    CASE newState = "ready"       -> "dependency_completed"
      [] newState = "in_progress" -> "children_started"
      [] newState = "in_review"   -> "children_completed"
      [] newState = "archived"    -> "parent_archived"
      [] OTHER                    -> Null

\* Mutant: in_progress and in_review have each other's trigger.
CascadeTrigger_Swapped(newState, cascadeType) ==
    CASE newState = "ready"       -> "dependency_completed"
      [] newState = "in_progress" -> "children_completed"
      [] newState = "in_review"   -> "children_started"
      [] newState = "archived"    ->
            IF cascadeType = "parent_completion_archive"
            THEN "parent_completed" ELSE "parent_archived"
      [] OTHER                    -> Null

\* The system trigger of a cascade to newState, Null when there is none.
CascadeTrigger(newState, cascadeType) ==
    CASE newState = "ready"       -> "dependency_completed"
      [] newState = "in_progress" -> "children_started"
      [] newState = "in_review"   -> "children_completed"
      [] newState = "archived"    ->
            IF cascadeType = "parent_completion_archive"
            THEN "parent_completed" ELSE "parent_archived"
      [] OTHER                    -> Null

\* The value is [ok |-> TRUE, value |-> event] or [ok |-> FALSE, error |-> e].
generateCascadeEvent(newState, triggerEvent, cascadeType, clock) ==
    IF CascadeTrigger(newState, cascadeType) = Null
    THEN [ok |-> FALSE,
          error |-> [name |-> "UnsupportedCascadeEvent", event |-> newState]]
    ELSE [ok |-> TRUE,
          value |-> [event     |-> newState,
                     actor     |-> CascadeActor,
                     trigger   |-> CascadeTrigger(newState, cascadeType),
                     timestamp |-> nowIsoUtcSeconds(clock),
                     metadata  |->
                        [cascade_type      |-> cascadeType,
                         trigger_event     |-> triggerEvent.event,
                         trigger_actor     |-> triggerEvent.actor,
                         trigger_timestamp |-> triggerEvent.timestamp]]]

\* Position of the most recent blocked event of a history, 0 when none.
LastBlockedIndex(evs) ==
    LET blocked == {i \in 1..Len(evs) : evs[i].event = "blocked"} IN
    IF blocked = {} THEN 0
    ELSE CHOOSE i \in blocked : \A j \in blocked : j <= i

\* Mutant: the entry carries the timestamp of the draft event, not the call's.
ResolvedEntry_FixedTimestamp(entry, ts) ==
    [artifact_id |-> entry.artifact_id, resolved |-> TRUE, resolved_at |-> T1300]

\* The entry with resolved = true and resolved_at = ts.
ResolvedEntry(entry, ts) ==
    [artifact_id |-> entry.artifact_id, resolved |-> TRUE, resolved_at |-> ts]

\* Mutant: one resolved entry is enough.
everyResolved_Some(deps) == \E k \in 1..Len(deps) : deps[k].resolved

everyResolved(deps) == \A k \in 1..Len(deps) : deps[k].resolved

\* context: [dependencyId |-> id, resolutionTimestamp |-> ts].  The value is
\* [updated, artifact, readyEventAdded]; artifact is a new value, the
\* argument is not changed.
resolveDependencyCompletion(dep, context) ==
    LET evs == dep.metadata.events
        b == LastBlockedIndex(evs)
        unchanged == [updated |-> FALSE, artifact |-> dep,
                      readyEventAdded |-> FALSE]
    IN IF b = 0 THEN unchanged
       ELSE
       LET deps == evs[b].metadata.blocking_dependencies
           hits == {k \in 1..Len(deps) :
                       deps[k].artifact_id = context.dependencyId}
       IN IF hits = {} THEN unchanged
          ELSE
          LET newDeps == [k \in 1..Len(deps) |->
                             IF k \in hits
                             THEN ResolvedEntry(deps[k],
                                                context.resolutionTimestamp)
                             ELSE deps[k]]
              newBlocked == [evs[b] EXCEPT
                                !.metadata.blocking_dependencies = newDeps]
              updatedEvents == [evs EXCEPT ![b] = newBlocked]
              allResolved == everyResolved(newDeps)
              readyEvent ==
                  [event     |-> "ready",
                   actor     |-> CascadeActor,
                   trigger   |-> "dependency_completed",
                   timestamp |-> context.resolutionTimestamp,
                   metadata  |->
                      [dependencies_resolved |->
                          [k \in 1..Len(newDeps) |-> newDeps[k].artifact_id]]]
              finalEvents == IF allResolved
                             THEN Append(updatedEvents, readyEvent)
                             ELSE updatedEvents
          IN [updated         |-> TRUE,
              artifact        |-> [dep EXCEPT !.metadata.events = finalEvents],
              readyEventAdded |-> allResolved]

\* Mutant: the entry is marked, and the ready event pushed, in the argument
\* itself.
dependentAfterResolve_InPlace(dep, context) ==
    resolveDependencyCompletion(dep, context).artifact

\* The argument after the call: the function works on a deep copy and
\* writes nothing to the argument.
dependentAfterResolve(dep, context) == dep

\* Mutant: a shallow copy: a new events array whose event objects, but for
\* the rewritten blocked event, are those of the argument.
sharedWithDependent_Shallow(dep, context) ==
    (1..Len(dep.metadata.events)) \ {LastBlockedIndex(dep.metadata.events)}

\* The positions whose event object is one and the same in the argument and
\* in the returned artifact: none, the copy is deep.
sharedWithDependent(dep, context) == {}

----------------------------------------------------------------------------
(* validator/dependency-validator.ts: detectCircularDependencies.  The     *)
(* artifacts Map is the sequence of its entries in insertion order; the    *)
(* nodes Map is a function over the ids plus that same order.  explore     *)
(* mutates the nodes it visits, so it returns the nodes along with the     *)
(* cycle; a null cycle is the empty sequence, which no cycle path is.      *)

NoCyclePath == <<>>

\* Array.prototype.indexOf: zero-based, -1 when absent.
indexOf(s, x) ==
    IF \E i \in 1..Len(s) : s[i] = x
    THEN (CHOOSE i \in 1..Len(s) : s[i] = x /\ \A j \in 1..(i - 1) : s[j] # x) - 1
    ELSE -1

\* Mutant: the start index is ignored and the whole array is returned.
slice_Whole(s, start) == s

\* Array.prototype.slice(start) for a non-negative start.
slice(s, start) == SubSeq(s, start + 1, Len(s))

RECURSIVE join(_, _)
join(s, separator) ==
    IF Len(s) = 0 THEN ""
    ELSE IF Len(s) = 1 THEN s[1]
    ELSE s[1] \o separator \o join(Tail(s), separator)

\* artifact.metadata.relationships?.blocked_by?.slice() ?? []
blockedByOf(artifact) ==
    IF /\ "relationships" \in DOMAIN artifact.metadata
       /\ "blocked_by" \in DOMAIN artifact.metadata.relationships
    THEN artifact.metadata.relationships.blocked_by
    ELSE <<>>

MapKeys(entries) == [i \in 1..Len(entries) |-> entries[i].id]

DependencyNodes(entries) ==
    [id \in Range(MapKeys(entries)) |->
        LET artifact == (CHOOSE i \in 1..Len(entries) : entries[i].id = id)
        IN  [id           |-> id,
             dependencies |-> blockedByOf(entries[artifact].artifact),
             visited      |-> FALSE,
             inStack      |-> FALSE]]

RECURSIVE explore(_, _, _)
RECURSIVE exploreDependencies(_, _, _, _)

\* explore and its loop return, next to the nodes and the cycle, two
\* records of the evaluation itself: expanded, the ids at which
\* node.visited = true was executed, in order, and depth, the deepest
\* nesting of explore calls below and including this one.
Max(a, b) == IF a >= b THEN a ELSE b

\* Mutant: a cycle found below is returned without node.inStack = false.
RECURSIVE exploreDependencies_KeepsInStack(_, _, _, _)
exploreDependencies_KeepsInStack(nodes, nodeId, path, k) ==
    IF k > Len(nodes[nodeId].dependencies)
    THEN [nodes |-> [nodes EXCEPT ![nodeId].inStack = FALSE],
          cycle |-> NoCyclePath, expanded |-> <<>>, depth |-> 0]
    ELSE LET dependencyId == nodes[nodeId].dependencies[k] IN
         IF dependencyId \notin DOMAIN nodes
         THEN exploreDependencies_KeepsInStack(nodes, nodeId, path, k + 1)
         ELSE LET r == explore(nodes, dependencyId, path) IN
              IF r.cycle # NoCyclePath
              THEN r
              ELSE LET rest == exploreDependencies_KeepsInStack(
                                   r.nodes, nodeId, path, k + 1)
                   IN  [nodes    |-> rest.nodes,
                        cycle    |-> rest.cycle,
                        expanded |-> r.expanded \o rest.expanded,
                        depth    |-> Max(r.depth, rest.depth)]

\* The for-loop of explore with break in place of continue: a dependency
\* that is not a key of the Map ends the loop.
RECURSIVE exploreDependencies_BreakOnUnknown(_, _, _, _)
exploreDependencies_BreakOnUnknown(nodes, nodeId, path, k) ==
    IF k > Len(nodes[nodeId].dependencies)
    THEN [nodes |-> [nodes EXCEPT ![nodeId].inStack = FALSE],
          cycle |-> NoCyclePath, expanded |-> <<>>, depth |-> 0]
    ELSE LET dependencyId == nodes[nodeId].dependencies[k] IN
         IF dependencyId \notin DOMAIN nodes
         THEN [nodes |-> [nodes EXCEPT ![nodeId].inStack = FALSE],
               cycle |-> NoCyclePath, expanded |-> <<>>, depth |-> 0]
         ELSE LET r == explore(nodes, dependencyId, path) IN
              IF r.cycle # NoCyclePath
              THEN [r EXCEPT !.nodes = [r.nodes EXCEPT ![nodeId].inStack = FALSE]]
              ELSE LET rest == exploreDependencies_BreakOnUnknown(
                                   r.nodes, nodeId, path, k + 1)
                   IN  [nodes    |-> rest.nodes,
                        cycle    |-> rest.cycle,
                        expanded |-> r.expanded \o rest.expanded,
                        depth    |-> Max(r.depth, rest.depth)]

\* The for-loop of explore over node.dependencies, from the k-th on.
exploreDependencies(nodes, nodeId, path, k) ==
    IF k > Len(nodes[nodeId].dependencies)
    THEN [nodes |-> [nodes EXCEPT ![nodeId].inStack = FALSE],
          cycle |-> NoCyclePath, expanded |-> <<>>, depth |-> 0]
    ELSE LET dependencyId == nodes[nodeId].dependencies[k] IN
         IF dependencyId \notin DOMAIN nodes
         THEN exploreDependencies(nodes, nodeId, path, k + 1)
         ELSE LET r == explore(nodes, dependencyId, path) IN
              IF r.cycle # NoCyclePath
              THEN [r EXCEPT !.nodes = [r.nodes EXCEPT ![nodeId].inStack = FALSE]]
              ELSE LET rest == exploreDependencies(r.nodes, nodeId, path, k + 1)
                   IN  [nodes    |-> rest.nodes,
                        cycle    |-> rest.cycle,
                        expanded |-> r.expanded \o rest.expanded,
                        depth    |-> Max(r.depth, rest.depth)]

explore(nodes, nodeId, path) ==
    IF nodeId \notin DOMAIN nodes
    THEN [nodes |-> nodes, cycle |-> NoCyclePath, expanded |-> <<>>, depth |-> 1]
    ELSE IF nodes[nodeId].inStack
    THEN LET cycleStart == indexOf(path, nodeId) IN
         [nodes |-> nodes,
          cycle |-> slice(path, IF cycleStart > 0 THEN cycleStart ELSE 0)
                        \o <<nodeId>>,
          expanded |-> <<>>, depth |-> 1]
    ELSE IF nodes[nodeId].visited
    THEN [nodes |-> nodes, cycle |-> NoCyclePath, expanded |-> <<>>, depth |-> 1]
    ELSE LET r == exploreDependencies(
                      [nodes EXCEPT ![nodeId].visited = TRUE,
                                    ![nodeId].inStack = TRUE],
                      nodeId, Append(path, nodeId), 1)
         IN  [nodes    |-> r.nodes,
              cycle    |-> r.cycle,
              expanded |-> <<nodeId>> \o r.expanded,
              depth    |-> 1 + r.depth]

CircularDependencyIssue(cycle) ==
    [code    |-> "CIRCULAR_DEPENDENCY",
     cycle   |-> cycle,
     message |-> "Circular dependency detected: " \o join(cycle, " -> ")]

\* The closing for-loop over the nodes Map, from its k-th entry on.  run
\* holds the issues pushed so far and the records of the evaluation: the
\* ids expanded, the deepest nesting of explore calls, the ids found with
\* inStack set when the exploration of a root returned.
RECURSIVE exploreRoots(_, _, _, _)
exploreRoots(nodes, keys, k, run) ==
    IF k > Len(keys) THEN run
    ELSE IF nodes[keys[k]].visited
    THEN exploreRoots(nodes, keys, k + 1, run)
    ELSE LET r == explore(nodes, keys[k], <<>>) IN
         exploreRoots(r.nodes, keys, k + 1,
                      [issues    |-> IF r.cycle # NoCyclePath
                                     THEN Append(run.issues,
                                                 CircularDependencyIssue(r.cycle))
                                     ELSE run.issues,
                       expanded  |-> run.expanded \o r.expanded,
                       depth     |-> Max(run.depth, r.depth),
                       leftInStack |->
                           run.leftInStack
                               \cup {id \in DOMAIN r.nodes : r.nodes[id].inStack}])

detectCircularDependenciesRun(entries) ==
    exploreRoots(DependencyNodes(entries), MapKeys(entries), 1,
                 [issues |-> <<>>, expanded |-> <<>>, depth |-> 0,
                  leftInStack |-> {}])

detectCircularDependencies(entries) ==
    detectCircularDependenciesRun(entries).issues

\* Mutant: the node table holds the blocked_by arrays themselves, and the
\* walk consumes them with shift().
artifactsAfterDetectCircularDependencies_Shared(entries) ==
    [i \in 1..Len(entries) |->
        IF /\ "relationships" \in DOMAIN entries[i].artifact.metadata
           /\ "blocked_by" \in DOMAIN entries[i].artifact.metadata.relationships
        THEN [entries[i] EXCEPT !.artifact.metadata.relationships.blocked_by = <<>>]
        ELSE entries[i]]

\* The artifacts Map after the call: the node table is built from copies
\* (blocked_by.slice()) and the Map is only read.
artifactsAfterDetectCircularDependencies(entries) == entries

----------------------------------------------------------------------------
(* constants.ts: the artifact id patterns.  A string is the sequence of    *)
(* its characters; a pattern is a sequence of tokens, each a literal       *)
(* character or a character class repeated one or more times, anchored at  *)
(* both ends.                                                              *)

UpperCaseLetters ==
    {"A", "B", "C", "D", "E", "F", "G", "H", "I", "J", "K", "L", "M",
     "N", "O", "P", "Q", "R", "S", "T", "U", "V", "W", "X", "Y", "Z"}
Digits == {"0", "1", "2", "3", "4", "5", "6", "7", "8", "9"}

\* The characters of the ids used as Map keys and references.
IdChars(id) ==
    CASE id = "A"      -> <<"A">>
      [] id = "B"      -> <<"B">>
      [] id = "A.1"    -> <<"A", ".", "1">>
      [] id = "A.2"    -> <<"A", ".", "2">>
      [] id = "A.3"    -> <<"A", ".", "3">>
      [] id = "A.9"    -> <<"A", ".", "9">>
      [] id = "B.1"    -> <<"B", ".", "1">>
      [] id = "A.1.1"  -> <<"A", ".", "1", ".", "1">>
      [] id = "A.1.2"  -> <<"A", ".", "1", ".", "2">>
      [] id = "A.2.1"  -> <<"A", ".", "2", ".", "1">>
      [] id = "B.1.1"  -> <<"B", ".", "1", ".", "1">>
      [] id = "A.9.9"  -> <<"A", ".", "9", ".", "9">>
      [] id = "custom" -> <<"c", "u", "s", "t", "o", "m">>
      [] id = "a.1"    -> <<"a", ".", "1">>
      [] id = "A."     -> <<"A", ".">>
      [] id = ""       -> <<>>

OneOrMore(class) == [kind |-> "plus", class |-> class]
Literal(c) == [kind |-> "char", class |-> {c}]

\* RegExp.prototype.test for an anchored pattern: the tokens from the k-th
\* on match the characters from the i-th on, up to the end.
RECURSIVE MatchFrom(_, _, _, _)
MatchFrom(pattern, k, chars, i) ==
    IF k > Len(pattern) THEN i = Len(chars) + 1
    ELSE IF pattern[k].kind = "char"
    THEN /\ i <= Len(chars)
         /\ chars[i] \in pattern[k].class
         /\ MatchFrom(pattern, k + 1, chars, i + 1)
    ELSE \E j \in (i + 1)..(Len(chars) + 1) :
            /\ \A n \in i..(j - 1) : chars[n] \in pattern[k].class
            /\ MatchFrom(pattern, k + 1, chars, j)

RegExpTest(pattern, id) == MatchFrom(pattern, 1, IdChars(id), 1)

INITIATIVE_ID_REGEX == <<OneOrMore(UpperCaseLetters)>>
MILESTONE_ID_REGEX ==
    <<OneOrMore(UpperCaseLetters), Literal("."), OneOrMore(Digits)>>
ISSUE_ID_REGEX ==
    <<OneOrMore(UpperCaseLetters), Literal("."), OneOrMore(Digits),
      Literal("."), OneOrMore(Digits)>>

----------------------------------------------------------------------------
(* validator/dependency-validator.ts: detectCrossLevelDependencies.        *)

NoArtifactType == "null"

\* inferArtifactType with the milestone pattern tried for every id that is
\* not an issue id, initiatives included
inferArtifactType_InitiativeAsMilestone(id) ==
    IF RegExpTest(ISSUE_ID_REGEX, id) THEN "issue"
    ELSE IF RegExpTest(MILESTONE_ID_REGEX, id)
            \/ RegExpTest(INITIATIVE_ID_REGEX, id) THEN "milestone"
    ELSE NoArtifactType

inferArtifactType(id) ==
    IF RegExpTest(ISSUE_ID_REGEX, id) THEN "issue"
    ELSE IF RegExpTest(MILESTONE_ID_REGEX, id) THEN "milestone"
    ELSE IF RegExpTest(INITIATIVE_ID_REGEX, id) THEN "initiative"
    ELSE NoArtifactType

LABEL_BY_TYPE ==
    [initiative |-> "initiative", milestone |-> "milestone", issue |-> "issue"]

formatArtifactLabel(type, id) == LABEL_BY_TYPE[type] \o " " \o id

\* Map.prototype.has / Map.prototype.get on the entries of the Map.
MapHas(entries, id) == \E i \in 1..Len(entries) : entries[i].id = id
MapGet(entries, id) ==
    entries[CHOOSE i \in 1..Len(entries) : entries[i].id = id].artifact

\* artifact.metadata.relationships?.blocked_by ?? []
dependenciesOf(artifact) ==
    IF /\ "relationships" \in DOMAIN artifact.metadata
       /\ "blocked_by" \in DOMAIN artifact.metadata.relationships
    THEN artifact.metadata.relationships.blocked_by
    ELSE <<>>

CrossLevelDependencyIssue(id, sourceType, dependencyId, dependencyType) ==
    [code           |-> "CROSS_LEVEL_DEPENDENCY",
     sourceId       |-> id,
     sourceType     |-> sourceType,
     dependencyId   |-> dependencyId,
     dependencyType |-> dependencyType,
     message        |-> "Cross-level dependency detected: "
                        \o formatArtifactLabel(sourceType, id)
                        \o " cannot depend on "
                        \o formatArtifactLabel(dependencyType, dependencyId)
                        \o "."]

\* The inner loop over the dependencies of one artifact, from the k-th on.
RECURSIVE crossLevelOfDependencies(_, _, _, _, _, _)
crossLevelOfDependencies(entries, id, sourceType, dependencies, k, issues) ==
    IF k > Len(dependencies) THEN issues
    ELSE LET dependencyId == dependencies[k]
             dependencyType == inferArtifactType(dependencyId)
             skipped == \/ ~MapHas(entries, dependencyId)
                        \/ dependencyType = NoArtifactType
                        \/ sourceType = dependencyType
         IN  crossLevelOfDependencies(
                 entries, id, sourceType, dependencies, k + 1,
                 IF skipped THEN issues
                 ELSE Append(issues,
                             CrossLevelDependencyIssue(id, sourceType,
                                 dependencyId, dependencyType)))

\* The outer loop over the entries of the Map, from the k-th on.
RECURSIVE crossLevelOfEntries(_, _, _)
crossLevelOfEntries(entries, k, issues) ==
    IF k > Len(entries) THEN issues
    ELSE LET id == entries[k].id
             sourceType == inferArtifactType(id)
         IN  crossLevelOfEntries(
                 entries, k + 1,
                 IF sourceType = NoArtifactType THEN issues
                 ELSE crossLevelOfDependencies(
                          entries, id, sourceType,
                          dependenciesOf(entries[k].artifact), 1, issues))

detectCrossLevelDependencies(entries) == crossLevelOfEntries(entries, 1, <<>>)

----------------------------------------------------------------------------
(* validator/dependency-validator.ts: validateRelationshipConsistency.     *)
(* The closure markInconsistent and the two forEach callbacks share issues *)
(* and reportedPairs; they are threaded through as one record.             *)

\* The characters of the ids in increasing order of their UTF-16 code units.
CodeUnitOrder ==
    <<".", "0", "1", "2", "3", "4", "5", "6", "7", "8", "9",
      "A", "B", "C", "D", "E", "F", "G", "H", "I", "J", "K", "L", "M",
      "N", "O", "P", "Q", "R", "S", "T", "U", "V", "W", "X", "Y", "Z",
      "a", "c", "m", "o", "s", "t", "u">>

CodeUnit(c) == CHOOSE i \in 1..Len(CodeUnitOrder) : CodeUnitOrder[i] = c

\* a < b for strings: at the first position where they differ a has the
\* smaller code unit, or a is a proper prefix of b.
StringLess(a, b) ==
    LET x == IdChars(a)
        y == IdChars(b)
    IN  \E n \in 1..(Len(y)) :
           /\ \A i \in 1..(n - 1) : i <= Len(x) /\ x[i] = y[i]
           /\ \/ n = Len(x) + 1
              \/ n <= Len(x) /\ CodeUnit(x[n]) < CodeUnit(y[n])

\* [a, b].sort()
sortPair(a, b) == IF StringLess(b, a) THEN <<b, a>> ELSE <<a, b>>

\* [sourceId, targetId].join("::"), the pair left in the order given
pairKey_Unsorted(sourceId, targetId) == join(<<sourceId, targetId>>, "::")

\* [sourceId, targetId].sort().join("::")
pairKey(sourceId, targetId) == join(sortPair(sourceId, targetId), "::")

getRelationships(artifact) ==
    IF "relationships" \notin DOMAIN artifact.metadata
    THEN [blocks |-> <<>>, blocked_by |-> <<>>]
    ELSE artifact.metadata.relationships

markInconsistent(st, sourceId, targetId, path, message) ==
    LET key == pairKey(sourceId, targetId) IN
    IF key \in st.reportedPairs THEN st
    ELSE [issues |-> Append(st.issues,
                            [code    |-> "RELATIONSHIP_INCONSISTENT_PAIR",
                             path    |-> path,
                             message |-> message]),
          reportedPairs |-> st.reportedPairs \cup {key}]

unknownArtifact(st, referencedId, id, path) ==
    [issues |-> Append(st.issues,
                       [code    |-> "RELATIONSHIP_UNKNOWN_ARTIFACT",
                        path    |-> path,
                        message |-> "'" \o referencedId \o "' referenced by "
                                    \o id \o " was not found."]),
     reportedPairs |-> st.reportedPairs]

\* relationships.blocks.forEach(...), from the entry of (zero-based) index on.
RECURSIVE forEachBlocks(_, _, _, _, _)
forEachBlocks(entries, id, blocks, index, st) ==
    IF index >= Len(blocks) THEN st
    ELSE LET targetId == blocks[index + 1]
             path == "metadata.relationships.blocks[" \o ToString(index) \o "]"
         IN  forEachBlocks(entries, id, blocks, index + 1,
                 IF ~MapHas(entries, targetId)
                 THEN unknownArtifact(st, targetId, id, path)
                 ELSE IF ~includes(getRelationships(MapGet(entries, targetId)).blocked_by, id)
                 THEN markInconsistent(st, id, targetId, path,
                          "'" \o id \o "' lists '" \o targetId
                          \o "' in blocks but the reciprocal blocked_by entry is missing.")
                 ELSE st)

\* relationships.blocked_by.forEach(...) with a callback that does nothing
forEachBlockedBy_NotWalked(entries, id, blocked_by, index, st) == st

\* relationships.blocked_by.forEach(...), from the entry of index on.
RECURSIVE forEachBlockedBy(_, _, _, _, _)
forEachBlockedBy(entries, id, blocked_by, index, st) ==
    IF index >= Len(blocked_by) THEN st
    ELSE LET sourceId == blocked_by[index + 1]
             path == "metadata.relationships.blocked_by[" \o ToString(index) \o "]"
         IN  forEachBlockedBy(entries, id, blocked_by, index + 1,
                 IF ~MapHas(entries, sourceId)
                 THEN unknownArtifact(st, sourceId, id, path)
                 ELSE IF ~includes(getRelationships(MapGet(entries, sourceId)).blocks, id)
                 THEN markInconsistent(st, sourceId, id, path,
                          "'" \o id \o "' lists '" \o sourceId
                          \o "' in blocked_by but the reciprocal blocks entry is missing.")
                 ELSE st)

\* The loop over the entries of the Map, from the k-th on.
RECURSIVE consistencyOfEntries(_, _, _)
consistencyOfEntries(entries, k, st) ==
    IF k > Len(entries) THEN st
    ELSE LET id == entries[k].id
             relationships == getRelationships(entries[k].artifact)
         IN  consistencyOfEntries(entries, k + 1,
                 forEachBlockedBy(entries, id, relationships.blocked_by, 0,
                     forEachBlocks(entries, id, relationships.blocks, 0, st)))

validateRelationshipConsistency(entries) ==
    consistencyOfEntries(entries, 1,
                         [issues |-> <<>>, reportedPairs |-> {}]).issues

----------------------------------------------------------------------------
(* The artifact validator (part_008): the sibling-only rule that           *)
(* enforceRelationshipConstraints applies to metadata.relationships once   *)
(* the schema has parsed the artifact.                                     *)

\* String.prototype.split(".") on the characters of a string.
RECURSIVE splitDots(_)
splitDots(chars) ==
    IF \A i \in 1..Len(chars) : chars[i] # "." THEN <<chars>>
    ELSE LET dot == CHOOSE i \in 1..Len(chars) :
                       chars[i] = "." /\ \A j \in 1..(i - 1) : chars[j] # "."
         IN  <<SubSeq(chars, 1, dot - 1)>>
                 \o splitDots(SubSeq(chars, dot + 1, Len(chars)))

\* The string made of the given characters.
StringOf(chars) == join(chars, "")

\* String.prototype.startsWith, the prefix given by its characters.
startsWith(id, prefix) ==
    /\ Len(prefix) <= Len(IdChars(id))
    /\ SubSeq(IdChars(id), 1, Len(prefix)) = prefix

NoIdParts == [type |-> NoArtifactType]

parseArtifactIdParts(id) ==
    LET parts == splitDots(IdChars(id)) IN
    IF RegExpTest(ISSUE_ID_REGEX, id)
    THEN [id |-> id, type |-> "issue", initiative |-> parts[1],
          milestoneNumber |-> parts[2], issueNumber |-> parts[3]]
    ELSE IF RegExpTest(MILESTONE_ID_REGEX, id)
    THEN [id |-> id, type |-> "milestone", initiative |-> parts[1],
          milestoneNumber |-> parts[2]]
    ELSE IF RegExpTest(INITIATIVE_ID_REGEX, id)
    THEN [id |-> id, type |-> "initiative", initiative |-> IdChars(id)]
    ELSE NoIdParts

relationshipsHaveEntries(relationships) ==
    Len(relationships.blocks) > 0 \/ Len(relationships.blocked_by) > 0

\* checkSibling for an issue with the test of the milestone prefix left out
checkSibling_InitiativeOnly(current, relationshipId, path) ==
    LET candidate == parseArtifactIdParts(relationshipId) IN
    IF candidate = NoIdParts
    THEN <<[code |-> "RELATIONSHIP_INVALID_ID", path |-> path]>>
    ELSE IF candidate.type # current.type
    THEN <<[code |-> "RELATIONSHIP_WRONG_TYPE", path |-> path]>>
    ELSE IF /\ current.type # "initiative"
            /\ ~startsWith(relationshipId, current.initiative \o <<".">>)
    THEN <<[code |-> "RELATIONSHIP_DIFFERENT_INITIATIVE", path |-> path]>>
    ELSE <<>>

\* checkSibling: the issues one relationship id adds, none or one.
checkSibling(current, relationshipId, path) ==
    LET candidate == parseArtifactIdParts(relationshipId)
        quoted == "'" \o relationshipId \o "'"
        initiative == StringOf(current.initiative)
        pushIssue(code, message) ==
            <<[code |-> code, path |-> path, message |-> message]>>
    IN
    IF current.type = "initiative"
    THEN IF candidate = NoIdParts
         THEN pushIssue("RELATIONSHIP_INVALID_ID",
                  quoted \o " is not a valid artifact ID. Initiatives only depend on initiative IDs like 'A' or 'B'.")
         ELSE IF candidate.type # "initiative"
         THEN pushIssue("RELATIONSHIP_WRONG_TYPE",
                  quoted \o " must reference another initiative ID (for example 'A' or 'B').")
         ELSE <<>>
    ELSE IF current.type = "milestone"
    THEN LET example == initiative \o ".1"
             expectedPrefix == current.initiative \o <<".">>
         IN  IF candidate = NoIdParts
             THEN pushIssue("RELATIONSHIP_INVALID_ID",
                      quoted \o " is not a valid artifact ID. Use a milestone ID like '"
                      \o example \o "' that starts with '"
                      \o StringOf(expectedPrefix) \o "'.")
             ELSE IF candidate.type # "milestone"
             THEN pushIssue("RELATIONSHIP_WRONG_TYPE",
                      quoted \o " must reference a milestone ID like '"
                      \o example \o "'.")
             ELSE IF ~startsWith(relationshipId, expectedPrefix)
             THEN pushIssue("RELATIONSHIP_DIFFERENT_INITIATIVE",
                      quoted \o " must start with '" \o StringOf(expectedPrefix)
                      \o "' to stay within initiative " \o initiative \o ".")
             ELSE <<>>
    ELSE LET initiativePrefix == current.initiative \o <<".">>
             milestonePrefix == current.initiative \o <<".">>
                                  \o current.milestoneNumber \o <<".">>
             example == StringOf(milestonePrefix) \o "1"
         IN  IF candidate = NoIdParts
             THEN pushIssue("RELATIONSHIP_INVALID_ID",
                      quoted \o " is not a valid artifact ID. Use an issue ID like '"
                      \o example \o "' that starts with '"
                      \o StringOf(milestonePrefix) \o "'.")
             ELSE IF candidate.type # "issue"
             THEN pushIssue("RELATIONSHIP_WRONG_TYPE",
                      quoted \o " must reference an issue ID like '"
                      \o example \o "'.")
             ELSE IF ~startsWith(relationshipId, initiativePrefix)
             THEN pushIssue("RELATIONSHIP_DIFFERENT_INITIATIVE",
                      quoted \o " must start with '" \o StringOf(initiativePrefix)
                      \o "' to stay within initiative " \o initiative \o ".")
             ELSE IF ~startsWith(relationshipId, milestonePrefix)
             THEN pushIssue("RELATIONSHIP_DIFFERENT_MILESTONE",
                      quoted \o " must start with '" \o StringOf(milestonePrefix)
                      \o "' to stay within milestone " \o initiative \o "."
                      \o StringOf(current.milestoneNumber) \o ".")
             ELSE <<>>

\* list.forEach((id, index) => checkSibling(id, `metadata.relationships.<name>[index]`))
RECURSIVE checkSiblings(_, _, _, _)
checkSiblings(current, list, name, index) ==
    IF index >= Len(list) THEN <<>>
    ELSE checkSibling(current, list[index + 1],
                      "metadata.relationships." \o name \o "["
                          \o ToString(index) \o "]")
             \o checkSiblings(current, list, name, index + 1)

\* Mutant: the blocked_by list is left unchecked.
collectRelationshipIssues_BlocksOnly(current, relationships) ==
    checkSiblings(current, relationships.blocks, "blocks", 0)

\* Mutant: the blocked_by list is walked before the blocks list.
collectRelationshipIssues_BlockedByFirst(current, relationships) ==
    checkSiblings(current, relationships.blocked_by, "blocked_by", 0)
        \o checkSiblings(current, relationships.blocks, "blocks", 0)

collectRelationshipIssues(current, relationships) ==
    checkSiblings(current, relationships.blocks, "blocks", 0)
        \o checkSiblings(current, relationships.blocked_by, "blocked_by", 0)

ArtifactValidationError(message, details) ==
    [ok |-> FALSE,
     error |-> [name |-> "ArtifactValidationError", message |-> message,
                details |-> details]]

throwRelationshipValidationError(type, issues) ==
    ArtifactValidationError(
        "Relationships validation failed (" \o ToString(Len(issues)) \o " "
            \o (IF Len(issues) = 1 THEN "issue" ELSE "issues") \o ")",
        [kind |-> "schema", artifactType |-> type, issues |-> issues])

Returned == [ok |-> TRUE]

\* options is the record of the keys given: artifactId is in it or not.
enforceRelationshipConstraints(type, metadata, options) ==
    LET relationships == metadata.relationships
        hasEntries == relationshipsHaveEntries(relationships)
    IN
    IF "artifactId" \notin DOMAIN options \/ options.artifactId = ""
    THEN IF hasEntries
         THEN ArtifactValidationError(
                  "Artifact ID is required to validate relationship dependencies",
                  [kind |-> "input", artifactType |-> type])
         ELSE Returned
    ELSE LET artifactId == options.artifactId
             current == parseArtifactIdParts(artifactId)
         IN  IF current = NoIdParts
             THEN ArtifactValidationError(
                      "Artifact ID '" \o artifactId
                          \o "' is not a recognised artifact identifier",
                      [kind |-> "input", artifactType |-> type])
             ELSE IF current.type # type
             THEN ArtifactValidationError(
                      "Artifact ID '" \o artifactId
                          \o "' does not match expected " \o type \o " artifacts",
                      [kind |-> "input", artifactType |-> type])
             ELSE IF ~hasEntries THEN Returned
             ELSE LET issues == collectRelationshipIssues(current, relationships)
                  IN  IF Len(issues) > 0
                      THEN throwRelationshipValidationError(type, issues)
                      ELSE Returned

----------------------------------------------------------------------------
(* Inputs of the calls, and the value every variable of a subsystem has    *)
(* while another subsystem is being exercised.                             *)

MaxEvents == 4

Actor == "Jane Doe (jane@example.com)"

CreateEventArgs(states, triggers, timestamps, metadatas) ==
    {Defined(a) : a \in [event     : states,
                         actor     : {Actor},
                         trigger   : triggers \cup {Undefined},
                         timestamp : timestamps \cup {Undefined},
                         metadata  : metadatas \cup {NoMetadata}]}

PipeIdle ==
    /\ artifactType = "issue"
    /\ events = <<>>
    /\ lastError = "none"

SmIdle ==
    /\ smType = "issue"
    /\ smFrom = "draft"
    /\ smTo = "draft"
    /\ smCalled = {}
    /\ smCan = FALSE
    /\ smValid = <<>>
    /\ smError = NoError

OrdIdle ==
    /\ ordEvents = <<>>
    /\ ordCalled = FALSE
    /\ ordResult = NoOrderError

EbIdle ==
    /\ ebArgs = [event |-> "draft", actor |-> Actor]
    /\ ebClock = 0
    /\ ebCalled = FALSE
    /\ ebResult = [ok |-> FALSE, error |-> NoError]

CasIdle ==
    /\ casChildren = <<>>
    /\ casParentState = Undefined
    /\ casCalled = FALSE
    /\ casDecision = [shouldCascade |-> FALSE, reason |-> ""]
    /\ casBefore = <<>>
    /\ casLog = <<>>

NoResolution ==
    [updated |-> FALSE, readyEventAdded |-> FALSE, called |-> FALSE,
     dependencyId |-> "", resolutionTimestamp |-> ""]

NoCascadeCall == [called |-> FALSE]

NoCaller == [edited |-> "none"]

NoEnforceArgs == [type |-> "issue"]

EnfIdle ==
    /\ enfArgs = NoEnforceArgs
    /\ enfCalled = FALSE
    /\ enfResult = [ok |-> FALSE, error |-> [name |-> "none"]]

ValIdle ==
    /\ artifacts = <<>>
    /\ valCalled = FALSE
    /\ circularIssues = <<>>
    /\ crossLevelIssues = <<>>
    /\ consistencyIssues = <<>>

SysIdle ==
    /\ sysArgs = NoCascadeCall
    /\ sysEvent = [ok |-> FALSE, error |-> NoError]
    /\ dependent = [metadata |-> [events |-> <<>>]]
    /\ resolution = NoResolution
    /\ depCaller = NoCaller

----------------------------------------------------------------------------
(* The write pipeline of one artifact: the caller builds the event with    *)
(* createEvent, authorizes the step with assertTransition and confirms the *)
(* extended history with validateEventOrder; only then is it appended.     *)

PipelineTimestamps == {T1300, T1305, TBadMonth}
PipelineClock == 300750

\* The arguments a caller can pass to createEvent.
PipelineArgs ==
    CreateEventArgs(Range(ARTIFACT_EVENTS), Range(EVENT_TRIGGERS),
                    PipelineTimestamps, {})

Built(args) == createEvent(args, PipelineClock)

\* What createEvent gives the caller: the events it returns for state `to`,
\* and the errors it raises.
BuiltEvents ==
    [to \in Range(ARTIFACT_EVENTS) |->
        {Built(args).value :
            args \in {a \in PipelineArgs : a.event = to /\ Built(a).ok}}]

BuilderErrors ==
    {Built(args).error.name : args \in {a \in PipelineArgs : ~Built(a).ok}}

currentState == events[Len(events)].event

Authorized(to) == assertTransition(artifactType, currentState, to)

Ordered(ev) == validateEventOrder(Append(events, ev))

Init ==
    /\ artifactType \in Range(ARTIFACT_TYPES)
    /\ events \in {<<ev>> : ev \in BuiltEvents["draft"]}
    /\ lastError = "none"
    /\ SmIdle /\ OrdIdle /\ EbIdle /\ CasIdle /\ SysIdle /\ ValIdle /\ EnfIdle

AppendRejectedByBuilder ==
    /\ lastError' \in BuilderErrors
    /\ UNCHANGED <<artifactType, events, smVars, ordVars, ebVars, casVars, sysVars, valVars, enfVars>>

AppendRejectedByStateMachine ==
    /\ \E to \in Range(ARTIFACT_EVENTS) :
          /\ BuiltEvents[to] # {}
          /\ Authorized(to) # NoError
          /\ lastError' = Authorized(to).name
    /\ UNCHANGED <<artifactType, events, smVars, ordVars, ebVars, casVars, sysVars, valVars, enfVars>>

AppendRejectedByOrder ==
    /\ \E to \in Range(ARTIFACT_EVENTS) : \E ev \in BuiltEvents[to] :
          /\ Authorized(to) = NoError
          /\ Ordered(ev) # NoOrderError
          /\ lastError' = Ordered(ev).code
    /\ UNCHANGED <<artifactType, events, smVars, ordVars, ebVars, casVars, sysVars, valVars, enfVars>>

AppendAccepted ==
    /\ Len(events) < MaxEvents
    /\ \E to \in Range(ARTIFACT_EVENTS) : \E ev \in BuiltEvents[to] :
          /\ Authorized(to) = NoError
          /\ Ordered(ev) = NoOrderError
          /\ events' = Append(events, ev)
          /\ lastError' = "none"
    /\ UNCHANGED <<artifactType, smVars, ordVars, ebVars, casVars, sysVars, valVars, enfVars>>

Next ==
    \/ AppendRejectedByBuilder
    \/ AppendRejectedByStateMachine
    \/ AppendRejectedByOrder
    \/ AppendAccepted

Spec == Init /\ [][Next]_vars

----------------------------------------------------------------------------
(* The lifecycle of one artifact driven through the fixed-trigger          *)
(* constructors: every step is authorized by assertTransition, the clock   *)
(* stamps the events.                                                      *)

MaxLifecycle == 6

LifecycleClock == 300750

\* What the constructor of state `to` returns.
ConstructorEvents(to) ==
    LET plain(r) == {r.value}
        a == Actor  u == Undefined  m == NoMetadata  c == LifecycleClock
    IN CASE to = "draft"       -> plain(createDraftEvent(a, u, m, c))
         [] to = "ready"       -> plain(createReadyEvent(a, u, m, c))
         [] to = "blocked"     ->
               plain(createBlockedEvent(a, <<[artifact_id |-> "A.1.1"]>>, u, c))
         [] to = "in_progress" -> plain(createInProgressEvent(a, u, m, c))
         [] to = "in_review"   -> plain(createInReviewEvent(a, u, m, c))
         [] to = "completed"   -> plain(createCompletedEvent(a, u, m, c))
         [] to = "cancelled"   -> plain(createCancelledEvent(a, u, m, c))
         [] to = "archived"    ->
               {createArchivedEvent(a, cause, u, m, c).value :
                   cause \in {"parent_completed", "parent_archived"}}

LifeInit ==
    /\ artifactType \in Range(ARTIFACT_TYPES)
    /\ events \in {<<ev>> : ev \in ConstructorEvents("draft")}
    /\ lastError = "none"
    /\ SmIdle /\ OrdIdle /\ EbIdle /\ CasIdle /\ SysIdle /\ ValIdle /\ EnfIdle

Advance ==
    /\ Len(events) < MaxLifecycle
    /\ \E to \in Range(ARTIFACT_EVENTS) : \E ev \in ConstructorEvents(to) :
          /\ assertTransition(artifactType, currentState, to) = NoError
          /\ events' = Append(events, ev)
          /\ lastError' = "none"
    /\ UNCHANGED <<artifactType, smVars, ordVars, ebVars, casVars, sysVars, valVars, enfVars>>

AdvanceRejected ==
    /\ \E to \in Range(ARTIFACT_EVENTS) :
          /\ assertTransition(artifactType, currentState, to) # NoError
          /\ lastError' = assertTransition(artifactType, currentState, to).name
    /\ UNCHANGED <<artifactType, events, smVars, ordVars, ebVars, casVars, sysVars, valVars, enfVars>>

LifeNext == Advance \/ AdvanceRejected

SpecLifecycle == LifeInit /\ [][LifeNext]_vars

----------------------------------------------------------------------------
(* The state machine's three functions, called on one (type, from, to).    *)

SmTypes == Range(ARTIFACT_TYPES) \cup {"epic"}
SmStates == Range(ARTIFACT_EVENTS) \cup {"paused"}

SmInit ==
    /\ smType \in SmTypes
    /\ smFrom \in SmStates
    /\ smTo \in SmStates
    /\ smCalled = {}
    /\ smCan = FALSE
    /\ smValid = <<>>
    /\ smError = NoError
    /\ PipeIdle /\ OrdIdle /\ EbIdle /\ CasIdle /\ SysIdle /\ ValIdle /\ EnfIdle

CallCanTransition ==
    /\ "canTransition" \notin smCalled
    /\ smCan' = canTransition(smType, smFrom, smTo)
    /\ smCalled' = smCalled \cup {"canTransition"}
    /\ UNCHANGED <<smType, smFrom, smTo, smValid, smError, pipeVars, ordVars, ebVars, casVars, sysVars, valVars, enfVars>>

CallGetValidTransitions ==
    /\ "getValidTransitions" \notin smCalled
    /\ smValid' = getValidTransitions(smType, smFrom)
    /\ smCalled' = smCalled \cup {"getValidTransitions"}
    /\ UNCHANGED <<smType, smFrom, smTo, smCan, smError, pipeVars, ordVars, ebVars, casVars, sysVars, valVars, enfVars>>

CallAssertTransition ==
    /\ "assertTransition" \notin smCalled
    /\ smError' = assertTransition(smType, smFrom, smTo)
    /\ smCalled' = smCalled \cup {"assertTransition"}
    /\ UNCHANGED <<smType, smFrom, smTo, smCan, smValid, pipeVars, ordVars, ebVars, casVars, sysVars, valVars, enfVars>>

SmNext ==
    \/ CallCanTransition
    \/ CallGetValidTransitions
    \/ CallAssertTransition

SpecStateMachine == SmInit /\ [][SmNext]_vars

----------------------------------------------------------------------------
(* validateEventOrder called on a history of up to MaxHistory events.      *)

MaxHistory == 3

OrderStates == {"draft", "ready", "in_progress"}

OrderEvents ==
    [event     : OrderStates,
     timestamp : AllTimestamps,
     actor     : {Actor},
     trigger   : {"artifact_created"}]

OrdInit ==
    /\ ordEvents \in SeqsUpTo(OrderEvents, MaxHistory)
    /\ ordCalled = FALSE
    /\ ordResult = NoOrderError
    /\ PipeIdle /\ SmIdle /\ EbIdle /\ CasIdle /\ SysIdle /\ ValIdle /\ EnfIdle

CallValidateEventOrder ==
    /\ ~ordCalled
    /\ ordResult' = validateEventOrder(ordEvents)
    /\ ordCalled' = TRUE
    /\ UNCHANGED <<ordEvents, pipeVars, smVars, ebVars, casVars, sysVars, valVars, enfVars>>

OrdNext == CallValidateEventOrder

SpecEventOrder == OrdInit /\ [][OrdNext]_vars

----------------------------------------------------------------------------
(* createEvent called on one CreateEventArgs object.                       *)

BuilderMetadata == {[pr |-> 123]}

EbInit ==
    /\ ebArgs \in CreateEventArgs(Range(ARTIFACT_EVENTS), Range(EVENT_TRIGGERS),
                                  {T1310, TGarbage}, BuilderMetadata)
    /\ ebClock \in ClockReadings
    /\ ebCalled = FALSE
    /\ ebResult = [ok |-> FALSE, error |-> NoError]
    /\ PipeIdle /\ SmIdle /\ OrdIdle /\ CasIdle /\ SysIdle /\ ValIdle /\ EnfIdle

CallCreateEvent ==
    /\ ~ebCalled
    /\ ebResult' = createEvent(ebArgs, ebClock)
    /\ ebCalled' = TRUE
    /\ UNCHANGED <<ebArgs, ebClock, pipeVars, smVars, ordVars, casVars, sysVars, valVars, enfVars>>

EbNext == CallCreateEvent

SpecEventBuilder == EbInit /\ [][EbNext]_vars

----------------------------------------------------------------------------
(* createBlockedEvent called on up to MaxBlockingDependencies entries,     *)
(* each with or without resolved and resolved_at.                          *)

MaxBlockingDependencies == 2

BlockingDependencyIds == {"A.1.2", "A.1.3"}
ResolvedAtInputs == {T1300, TBadMonth, TGarbage, ""}

BlockingDependencyInputs ==
    {[artifact_id |-> id] : id \in BlockingDependencyIds}
    \cup [artifact_id : BlockingDependencyIds, resolved : BOOLEAN]
    \cup [artifact_id : BlockingDependencyIds, resolved_at : ResolvedAtInputs]
    \cup [artifact_id : BlockingDependencyIds, resolved : BOOLEAN,
          resolved_at : ResolvedAtInputs]

BlockedInit ==
    /\ \E deps \in SeqsUpTo(BlockingDependencyInputs, MaxBlockingDependencies) :
          \/ ebArgs = [actor |-> Actor, blockingDependencies |-> deps]
          \/ ebArgs = [actor |-> Actor, blockingDependencies |-> deps,
                       timestamp |-> T1310]
    /\ ebClock = 300750
    /\ ebCalled = FALSE
    /\ ebResult = [ok |-> FALSE, error |-> NoError]
    /\ PipeIdle /\ SmIdle /\ OrdIdle /\ CasIdle /\ SysIdle /\ ValIdle /\ EnfIdle

CallCreateBlockedEvent ==
    /\ ~ebCalled
    /\ ebResult' = createBlockedEvent(
                       ebArgs.actor, ebArgs.blockingDependencies,
                       IF "timestamp" \in DOMAIN ebArgs THEN ebArgs.timestamp
                       ELSE Undefined,
                       ebClock)
    /\ ebCalled' = TRUE
    /\ UNCHANGED <<ebArgs, ebClock, pipeVars, smVars, ordVars, casVars,
                   sysVars, valVars, enfVars>>

BlockedNext == CallCreateBlockedEvent

SpecBlockedEvent == BlockedInit /\ [][BlockedNext]_vars

----------------------------------------------------------------------------
(* shouldCascadeToParent called on up to MaxChildren children.             *)

MaxChildren == 3

\* A child's event history: empty, the draft event, or draft followed by
\* the event of its current state; the engine reads the last event only.
ChildHistories ==
    {<<>>, <<[event |-> "draft"]>>}
        \cup {<<[event |-> "draft"], [event |-> st]>> :
                 st \in Range(ARTIFACT_EVENTS) \ {"draft"}}

Children == {[metadata |-> [events |-> h]] : h \in ChildHistories}

ParentStates == Range(ARTIFACT_EVENTS) \cup {Undefined}

CasInit ==
    /\ casChildren \in SeqsUpTo(Children, MaxChildren)
    /\ casParentState \in ParentStates
    /\ casCalled = FALSE
    /\ casDecision = [shouldCascade |-> FALSE, reason |-> ""]
    /\ casBefore = <<>>
    /\ casLog = <<>>
    /\ PipeIdle /\ SmIdle /\ OrdIdle /\ EbIdle /\ SysIdle /\ ValIdle /\ EnfIdle

\* The call: the decision is returned, the children arrays are left as the
\* reads of the call leave them, and the caller keeps the copy it took
\* before the call.
CallShouldCascadeToParent ==
    /\ ~casCalled
    /\ Len(casLog) < 2
    /\ casDecision' = shouldCascadeToParent(casChildren, casParentState)
    /\ casChildren' = childrenAfterShouldCascade(casChildren)
    /\ casBefore' = casChildren
    /\ casLog' = Append(casLog,
                        [children    |-> casChildren,
                         parentState |-> casParentState,
                         decision    |->
                            shouldCascadeToParent(casChildren, casParentState)])
    /\ casCalled' = TRUE
    /\ UNCHANGED <<casParentState,
                   pipeVars, smVars, ordVars, ebVars, sysVars, valVars, enfVars>>

CasNext == CallShouldCascadeToParent

SpecCascade == CasInit /\ [][CasNext]_vars

----------------------------------------------------------------------------
(* shouldCascadeToParent called, the parent moved to the state the         *)
(* decision names, and shouldCascadeToParent called again on the same      *)
(* children with the parent's new state.                                   *)

AdoptNewState ==
    /\ Len(casLog) = 1
    /\ casCalled
    /\ casDecision.shouldCascade
    /\ casParentState' = casDecision.newState
    /\ casCalled' = FALSE
    /\ UNCHANGED <<casChildren, casDecision, casBefore, casLog,
                   pipeVars, smVars, ordVars, ebVars, sysVars, valVars, enfVars>>

AdoptNext ==
    \/ CallShouldCascadeToParent
    \/ AdoptNewState

SpecCascadeAdopt == CasInit /\ [][AdoptNext]_vars

----------------------------------------------------------------------------
(* shouldCascadeToParent called twice by a caller that edits the children  *)
(* between the calls: cancelled or archived children come and go, a        *)
(* child's history is replaced by another one that ends in the same state. *)

\* Histories of the edited children: short ones, and full ones whose events
\* carry all the fields of an event record.
FullEvent(state, trigger, ts) ==
    [event |-> state, actor |-> Actor, trigger |-> trigger, timestamp |-> ts]

RepeatedHistories ==
    {<<>>}
        \cup {<<[event |-> "draft"], [event |-> st]>> :
                 st \in {"ready", "in_progress", "completed", "cancelled",
                         "archived"}}
        \cup {<<FullEvent("draft", "artifact_created", T1300),
                FullEvent("ready", "dependencies_met", T1300),
                FullEvent("in_progress", "branch_created", T1305),
                FullEvent("in_review", "pr_ready", T1305),
                FullEvent("completed", "pr_merged", T1310)>>,
              <<FullEvent("draft", "artifact_created", T1300),
                FullEvent("ready", "dependencies_met", T1305),
                FullEvent("cancelled", "manual_cancel", T1310)>>}

RepeatedChildren == {[metadata |-> [events |-> h]] : h \in RepeatedHistories}

\* The children a caller may add or drop without a change of decision.
InertChildren ==
    {c \in RepeatedChildren :
        /\ Len(c.metadata.events) > 0
        /\ c.metadata.events[Len(c.metadata.events)].event
              \in {"cancelled", "archived"}}

\* parentState is read once, compared with ready: ready, a state that is
\* not ready, and the argument left out.
RepeatedParentStates == {"ready", "in_progress", Undefined}

RepeatedInit ==
    /\ casChildren \in SeqsUpTo(RepeatedChildren, MaxChildren - 1)
    /\ casParentState \in RepeatedParentStates
    /\ casCalled = FALSE
    /\ casDecision = [shouldCascade |-> FALSE, reason |-> ""]
    /\ casBefore = <<>>
    /\ casLog = <<>>
    /\ PipeIdle /\ SmIdle /\ OrdIdle /\ EbIdle /\ SysIdle /\ ValIdle /\ EnfIdle

AddInertChild ==
    /\ Len(casLog) = 1
    /\ Len(casChildren) < MaxChildren
    /\ \E k \in 1..(Len(casChildren) + 1), c \in InertChildren :
          casChildren' = InsertAt(casChildren, k, c)
    /\ casCalled' = FALSE
    /\ UNCHANGED <<casParentState, casDecision, casBefore, casLog,
                   pipeVars, smVars, ordVars, ebVars, sysVars, valVars, enfVars>>

RemoveInertChild ==
    /\ Len(casLog) = 1
    /\ \E k \in 1..Len(casChildren) :
          /\ casChildren[k] \in InertChildren
          /\ casChildren' = RemoveAt(casChildren, k)
    /\ casCalled' = FALSE
    /\ UNCHANGED <<casParentState, casDecision, casBefore, casLog,
                   pipeVars, smVars, ordVars, ebVars, sysVars, valVars, enfVars>>

ReplaceChildHistory ==
    /\ Len(casLog) = 1
    /\ \E k \in 1..Len(casChildren), c \in RepeatedChildren :
          /\ c # casChildren[k]
          /\ Len(c.metadata.events) > 0
          /\ Len(casChildren[k].metadata.events) > 0
          /\ c.metadata.events[Len(c.metadata.events)].event
                = casChildren[k].metadata.events[
                      Len(casChildren[k].metadata.events)].event
          /\ casChildren' = [casChildren EXCEPT ![k] = c]
    /\ casCalled' = FALSE
    /\ UNCHANGED <<casParentState, casDecision, casBefore, casLog,
                   pipeVars, smVars, ordVars, ebVars, sysVars, valVars, enfVars>>

\* The caller evaluates the same children once more.
Reevaluate ==
    /\ Len(casLog) = 1
    /\ casCalled
    /\ casCalled' = FALSE
    /\ UNCHANGED <<casChildren, casParentState, casDecision, casBefore, casLog,
                   pipeVars, smVars, ordVars, ebVars, sysVars, valVars, enfVars>>

RepeatedNext ==
    \/ CallShouldCascadeToParent
    \/ AddInertChild
    \/ RemoveInertChild
    \/ ReplaceChildHistory
    \/ Reevaluate

SpecCascadeRepeated == RepeatedInit /\ [][RepeatedNext]_vars

----------------------------------------------------------------------------
(* The system-generated events: generateCascadeEvent called for any target *)
(* state, or resolveDependencyCompletion applied again and again to a      *)
(* blocked artifact, each call fed the artifact the previous one returned. *)
(* The two functions share no state: a behaviour exercises one of them.    *)

MaxDependencies == 2
MaxDependentEvents == 4

DependencyIds == <<"A.1.1", "A.1.2", "A.1.3">>
UnknownDependencyId == "A.9.9"

\* The event that caused the cascade, with the cascade type the caller
\* names for it.
CascadeCauses ==
    {[type |-> "child_started", event |-> "in_progress", trigger |-> "branch_created"],
     [type |-> "all_children_complete", event |-> "completed", trigger |-> "pr_merged"],
     [type |-> "dependency_resolved", event |-> "completed", trigger |-> "pr_merged"],
     [type |-> "parent_completion_archive", event |-> "completed", trigger |-> "pr_merged"],
     [type |-> "parent_cancel_archive", event |-> "cancelled", trigger |-> "manual_cancel"]}

CascadeClock == {300750, 600999}

\* Who caused the cascade: a person, or the cascade itself one level down.
TriggerActors == {Actor, CascadeActor}

TriggerEvent(cause, actor, ts) ==
    createEvent([event |-> cause.event, actor |-> actor,
                 trigger |-> cause.trigger, timestamp |-> ts], 0).value

\* buildBlockedDependent of engine.test.ts: draft, then blocked on the
\* first n dependency ids, none of them resolved.
BlockedDependent(n) ==
    [metadata |->
        [events |->
            <<[event |-> "draft", timestamp |-> T1300, actor |-> Actor,
               trigger |-> "artifact_created"],
              [event |-> "blocked", timestamp |-> T1305, actor |-> Actor,
               trigger |-> "has_dependencies",
               metadata |->
                  [blocking_dependencies |->
                      [k \in 1..n |->
                          [artifact_id |-> DependencyIds[k],
                           resolved    |-> FALSE]]]]>>]]

\* The same artifact cancelled while it was blocked: the blocked event is
\* the most recent blocked event but not the last event.
CancelledDependent(n) ==
    [metadata |->
        [events |->
            Append(BlockedDependent(n).metadata.events,
                   [event |-> "cancelled", timestamp |-> T1305, actor |-> Actor,
                    trigger |-> "manual_cancel"])]]

\* The resolutionTimestamp of a call: before, at and after the blocked event.
ResolutionTimestamps == {T1300, T1305, T1310}

SysInit ==
    /\ sysArgs = NoCascadeCall
    /\ sysEvent = [ok |-> FALSE, error |-> NoError]
    /\ dependent \in {BlockedDependent(n) : n \in 1..MaxDependencies}
                        \cup {CancelledDependent(n) : n \in 1..MaxDependencies}
    /\ resolution = NoResolution
    /\ depCaller = NoCaller
    /\ PipeIdle /\ SmIdle /\ OrdIdle /\ EbIdle /\ CasIdle /\ ValIdle /\ EnfIdle

GenerateCascadeEvent ==
    /\ ~resolution.called
    /\ \E newState \in Range(ARTIFACT_EVENTS), cause \in CascadeCauses,
          actor \in TriggerActors, ts \in {T1300, T1305},
          clock \in CascadeClock :
          LET r == generateCascadeEvent(newState, TriggerEvent(cause, actor, ts),
                                        cause.type, clock)
          IN /\ r.ok
             /\ sysEvent' = r
             /\ sysArgs' = [called       |-> TRUE,
                            newState     |-> newState,
                            triggerEvent |-> TriggerEvent(cause, actor, ts),
                            cascadeType  |-> cause.type]
    /\ UNCHANGED <<dependent, resolution, depCaller,
                   pipeVars, smVars, ordVars, ebVars, casVars, valVars, enfVars>>

GenerateCascadeEventUnsupported ==
    /\ ~resolution.called
    /\ \E newState \in Range(ARTIFACT_EVENTS), cause \in CascadeCauses,
          actor \in TriggerActors, ts \in {T1300, T1305},
          clock \in CascadeClock :
          LET r == generateCascadeEvent(newState, TriggerEvent(cause, actor, ts),
                                        cause.type, clock)
          IN /\ ~r.ok
             /\ sysEvent' = r
             /\ sysArgs' = [called       |-> TRUE,
                            newState     |-> newState,
                            triggerEvent |-> TriggerEvent(cause, actor, ts),
                            cascadeType  |-> cause.type]
    /\ UNCHANGED <<dependent, resolution, depCaller,
                   pipeVars, smVars, ordVars, ebVars, casVars, valVars, enfVars>>

\* One call, on the artifact the caller holds.  The caller keeps its
\* argument and a deep copy of it, and goes on with the returned artifact.
ResolveDependency ==
    /\ ~sysArgs.called
    /\ depCaller.edited = "none"
    /\ Len(dependent.metadata.events) < MaxDependentEvents
    /\ \E id \in Range(DependencyIds) \cup {UnknownDependencyId},
          ts \in ResolutionTimestamps :
          LET context == [dependencyId |-> id, resolutionTimestamp |-> ts]
              r == resolveDependencyCompletion(dependent, context)
          IN /\ dependent' = r.artifact
             /\ resolution' = [updated             |-> r.updated,
                               readyEventAdded     |-> r.readyEventAdded,
                               called              |-> TRUE,
                               dependencyId        |-> id,
                               resolutionTimestamp |-> ts]
             /\ depCaller' = [edited   |-> "none",
                              input    |-> dependentAfterResolve(dependent, context),
                              snapshot |-> dependent,
                              returned |-> r.artifact,
                              shared   |-> sharedWithDependent(dependent, context)]
    /\ UNCHANGED <<sysArgs, sysEvent, pipeVars, smVars, ordVars, ebVars, casVars, valVars, enfVars>>

\* A later change by the caller to one event object of an artifact.
EditedActor == "Editor (editor@example.com)"

EditEvent(artifact, i) ==
    [artifact EXCEPT !.metadata.events[i].actor = EditedActor]

\* The caller changes an event of the returned artifact; the change shows in
\* the argument when both hold the same event object.
ChangeReturnedArtifact ==
    /\ resolution.called
    /\ depCaller.edited = "none"
    /\ \E i \in 1..Len(dependent.metadata.events) :
          /\ dependent' = EditEvent(dependent, i)
          /\ depCaller' =
                [depCaller EXCEPT
                    !.edited = "returned",
                    !.input = IF i \in depCaller.shared
                              THEN EditEvent(depCaller.input, i)
                              ELSE depCaller.input]
    /\ UNCHANGED <<sysArgs, sysEvent, resolution,
                   pipeVars, smVars, ordVars, ebVars, casVars, valVars, enfVars>>

\* The caller changes an event of its argument, and of its copy of it; the
\* change shows in the returned artifact when both hold the same object.
ChangeDependentArgument ==
    /\ resolution.called
    /\ depCaller.edited = "none"
    /\ \E i \in 1..Len(depCaller.input.metadata.events) :
          /\ depCaller' =
                [depCaller EXCEPT
                    !.edited = "argument",
                    !.input = EditEvent(depCaller.input, i),
                    !.snapshot = EditEvent(depCaller.snapshot, i)]
          /\ dependent' = IF i \in depCaller.shared
                          THEN EditEvent(dependent, i)
                          ELSE dependent
    /\ UNCHANGED <<sysArgs, sysEvent, resolution,
                   pipeVars, smVars, ordVars, ebVars, casVars, valVars, enfVars>>

SysNext ==
    \/ GenerateCascadeEvent
    \/ GenerateCascadeEventUnsupported
    \/ ResolveDependency
    \/ ChangeReturnedArtifact
    \/ ChangeDependentArgument

SpecSystemEvents == SysInit /\ [][SysNext]_vars

----------------------------------------------------------------------------
(* Specification of the dependency-graph validator: one call of            *)
(* detectCircularDependencies on an artifacts Map of up to three known     *)
(* artifacts in any insertion order, whose blocked_by lists may also name  *)
(* an id that is not a key of the Map.                                     *)

MaxBlockedBy == 2

GraphIds == {"A.1", "A.2", "A.3"}

UnknownId == "A.9"

IsDistinct(s) == \A i, j \in 1..Len(s) : i # j => s[i] # s[j]

BlockedByLists ==
    {b \in SeqsUpTo(GraphIds \cup {UnknownId}, MaxBlockedBy) : IsDistinct(b)}

\* part_009 makeArtifact, and the two shapes in which blocked_by is missing.
GraphArtifacts ==
    {[metadata |-> [title |-> "Artifact"]],
     [metadata |-> [title |-> "Artifact", relationships |-> [blocks |-> <<>>]]]}
    \cup {[metadata |-> [title |-> "Artifact",
                         relationships |-> [blocks |-> <<>>, blocked_by |-> b]]]
          : b \in BlockedByLists}

KeyOrders == {k \in SeqsUpTo(GraphIds, Cardinality(GraphIds)) : IsDistinct(k)}

\* new Map(keys.map((id, i) => [id, stored[i]]))
ArtifactMap(keys, stored) ==
    [i \in 1..Len(keys) |-> [id |-> keys[i], artifact |-> stored[i]]]

ValInit ==
    /\ \E keys \in KeyOrders :
           \E stored \in [1..Len(keys) -> GraphArtifacts] :
               artifacts = ArtifactMap(keys, stored)
    /\ valCalled = FALSE
    /\ circularIssues = <<>>
    /\ crossLevelIssues = <<>>
    /\ consistencyIssues = <<>>
    /\ PipeIdle /\ SmIdle /\ OrdIdle /\ EbIdle /\ CasIdle /\ SysIdle /\ EnfIdle

CallDetectCircularDependencies ==
    /\ ~valCalled
    /\ circularIssues' = detectCircularDependencies(artifacts)
    /\ artifacts' = artifactsAfterDetectCircularDependencies(artifacts)
    /\ valCalled' = TRUE
    /\ UNCHANGED <<crossLevelIssues, consistencyIssues,
                   pipeVars, smVars, ordVars, ebVars, casVars, sysVars, enfVars>>

ValNext == CallDetectCircularDependencies

SpecCycles == ValInit /\ [][ValNext]_vars

----------------------------------------------------------------------------
(* One call of detectCrossLevelDependencies on a Map that holds a source   *)
(* artifact with any blocked_by list and, before or after it, at most one  *)
(* other artifact with at most one dependency and one blocks entry.  The   *)
(* ids are an initiative, two milestones, an issue and an unparseable id;  *)
(* a reference may also name an issue that is not a key of the Map.        *)

MaxLevelDependencies == 2

LevelKeys == {"A", "A.1", "A.2", "A.1.1", "custom"}

LevelReferences == LevelKeys \cup {"A.9.9"}

\* part_009 makeArtifact
makeArtifact(blocks, blocked_by) ==
    [metadata |-> [title |-> "Artifact",
                   relationships |-> [blocks |-> blocks,
                                      blocked_by |-> blocked_by]]]

SourceArtifacts ==
    {makeArtifact(<<>>, b) :
        b \in SeqsUpTo(LevelReferences, MaxLevelDependencies)}

OtherArtifacts ==
    {[metadata |-> [title |-> "Artifact"]],
     [metadata |-> [title |-> "Artifact", relationships |-> [blocks |-> <<>>]]]}
    \cup {makeArtifact(blocks, b) :
            blocks \in {<<>>, <<"A">>, <<"A.1.1">>},
            b \in {<<>>} \cup {<<d>> : d \in LevelReferences}}

LevelInit ==
    /\ \E sourceId \in LevelKeys, source \in SourceArtifacts :
          \/ artifacts = ArtifactMap(<<sourceId>>, <<source>>)
          \/ \E otherId \in LevelKeys \ {sourceId}, other \in OtherArtifacts :
                \/ artifacts = ArtifactMap(<<sourceId, otherId>>,
                                           <<source, other>>)
                \/ artifacts = ArtifactMap(<<otherId, sourceId>>,
                                           <<other, source>>)
    /\ valCalled = FALSE
    /\ circularIssues = <<>>
    /\ crossLevelIssues = <<>>
    /\ consistencyIssues = <<>>
    /\ PipeIdle /\ SmIdle /\ OrdIdle /\ EbIdle /\ CasIdle /\ SysIdle /\ EnfIdle

CallDetectCrossLevelDependencies ==
    /\ ~valCalled
    /\ crossLevelIssues' = detectCrossLevelDependencies(artifacts)
    /\ valCalled' = TRUE
    /\ UNCHANGED <<artifacts, circularIssues, consistencyIssues,
                   pipeVars, smVars, ordVars, ebVars, casVars, sysVars, enfVars>>

LevelNext == CallDetectCrossLevelDependencies

SpecCrossLevel == LevelInit /\ [][LevelNext]_vars

----------------------------------------------------------------------------
(* A caller fills the blocks and blocked_by lists of a Map of up to three  *)
(* artifacts, one reference at a time, and then validates it with          *)
(* validateRelationshipConsistency.  A reference names a key of the Map,   *)
(* an id that could be a key but is not in this Map, or the unknown id; a  *)
(* Map of fewer than three artifacts may hold one without relationships.   *)

MaxReferences == 2

HasRelationships(entry) == "relationships" \in DOMAIN entry.artifact.metadata

TotalReferences(entries) ==
    LET RECURSIVE Sum(_)
        Sum(k) ==
            IF k > Len(entries) THEN 0
            ELSE Len(getRelationships(entries[k].artifact).blocks)
                 + Len(getRelationships(entries[k].artifact).blocked_by)
                 + Sum(k + 1)
    IN  Sum(1)

RelInit ==
    /\ \E keys \in KeyOrders :
          \E bare \in SUBSET (1..Len(keys)) :
             /\ Cardinality(bare) <= 1
             /\ bare # {} => Len(keys) < Cardinality(GraphIds)
             /\ artifacts =
                   ArtifactMap(keys,
                       [i \in 1..Len(keys) |->
                           IF i \in bare
                           THEN [metadata |-> [title |-> "Artifact"]]
                           ELSE makeArtifact(<<>>, <<>>)])
    /\ valCalled = FALSE
    /\ circularIssues = <<>>
    /\ crossLevelIssues = <<>>
    /\ consistencyIssues = <<>>
    /\ PipeIdle /\ SmIdle /\ OrdIdle /\ EbIdle /\ CasIdle /\ SysIdle /\ EnfIdle

AddBlocks ==
    /\ ~valCalled
    /\ TotalReferences(artifacts) < MaxReferences
    /\ \E i \in 1..Len(artifacts), targetId \in GraphIds \cup {UnknownId} :
          /\ HasRelationships(artifacts[i])
          /\ artifacts' =
                [artifacts EXCEPT ![i].artifact.metadata.relationships.blocks
                                      = Append(@, targetId)]
    /\ UNCHANGED <<valCalled, circularIssues, crossLevelIssues,
                   consistencyIssues,
                   pipeVars, smVars, ordVars, ebVars, casVars, sysVars, enfVars>>

AddBlockedBy ==
    /\ ~valCalled
    /\ TotalReferences(artifacts) < MaxReferences
    /\ \E i \in 1..Len(artifacts), sourceId \in GraphIds \cup {UnknownId} :
          /\ HasRelationships(artifacts[i])
          /\ artifacts' =
                [artifacts EXCEPT ![i].artifact.metadata.relationships.blocked_by
                                      = Append(@, sourceId)]
    /\ UNCHANGED <<valCalled, circularIssues, crossLevelIssues,
                   consistencyIssues,
                   pipeVars, smVars, ordVars, ebVars, casVars, sysVars, enfVars>>

CallValidateRelationshipConsistency ==
    /\ ~valCalled
    /\ consistencyIssues' = validateRelationshipConsistency(artifacts)
    /\ valCalled' = TRUE
    /\ UNCHANGED <<artifacts, circularIssues, crossLevelIssues,
                   pipeVars, smVars, ordVars, ebVars, casVars, sysVars, enfVars>>

RelNext ==
    \/ AddBlocks
    \/ AddBlockedBy
    \/ CallValidateRelationshipConsistency

SpecConsistency == RelInit /\ [][RelNext]_vars

----------------------------------------------------------------------------
(* One call of enforceRelationshipConstraints, as validateInitiative,      *)
(* validateMilestone and validateIssue make it after the schema parse:     *)
(* any artifact type, with or without options.artifactId, and up to        *)
(* MaxSiblingReferences ids spread over blocks and blocked_by.             *)

MaxSiblingReferences == 2

SiblingReferenceIds ==
    {"A", "B", "A.1", "A.2", "B.1", "A.1.1", "A.1.2", "A.2.1", "B.1.1",
     "custom"}

OwnIds == {"A", "A.1", "A.1.1", "custom", ""}

EnfInit ==
    /\ \E type \in Range(ARTIFACT_TYPES),
          options \in {[none |-> TRUE]} \cup {[artifactId |-> id] : id \in OwnIds},
          blocks \in SeqsUpTo(SiblingReferenceIds, MaxSiblingReferences) :
          \E blocked_by \in SeqsUpTo(SiblingReferenceIds,
                                     MaxSiblingReferences - Len(blocks)) :
             enfArgs = [type     |-> type,
                        metadata |-> makeArtifact(blocks, blocked_by).metadata,
                        options  |-> options]
    /\ enfCalled = FALSE
    /\ enfResult = [ok |-> FALSE, error |-> [name |-> "none"]]
    /\ PipeIdle /\ SmIdle /\ OrdIdle /\ EbIdle /\ CasIdle /\ SysIdle /\ ValIdle

CallEnforceRelationshipConstraints ==
    /\ ~enfCalled
    /\ enfResult' = enforceRelationshipConstraints(
                        enfArgs.type, enfArgs.metadata, enfArgs.options)
    /\ enfCalled' = TRUE
    /\ UNCHANGED <<enfArgs, pipeVars, smVars, ordVars, ebVars, casVars,
                   sysVars, valVars>>

EnfNext == CallEnforceRelationshipConstraints

SpecSiblings == EnfInit /\ [][EnfNext]_vars

----------------------------------------------------------------------------
(* History invariants of the data model.                                   *)

Parses(ts) == ~isNaN(getTime(ts))

\* H1: the history is non-empty and starts with draft.
H1(h) == Len(h) > 0 /\ h[1].event = "draft"

\* H2: every event's instant is at or after its predecessor's.
H2(h) ==
    \A i \in 2..Len(h) :
        /\ Parses(h[i - 1].timestamp)
        /\ Parses(h[i].timestamp)
        /\ getTime(h[i].timestamp) >= getTime(h[i - 1].timestamp)

\* H2 over the adjacent pairs whose timestamps both parse.
H2Parsed(h) ==
    \A i \in 2..Len(h) :
        (Parses(h[i - 1].timestamp) /\ Parses(h[i].timestamp))
            => getTime(h[i].timestamp) >= getTime(h[i - 1].timestamp)

\* H3: every consecutive pair of states is in the type's transition table.
H3(type, h) ==
    \A i \in 2..Len(h) :
        h[i].event \in Range(STATE_TRANSITIONS[type][h[i - 1].event])

\* H4: every event's trigger is allowed for its state.
H4(h) ==
    \A i \in 1..Len(h) :
        h[i].trigger \in Range(EVENT_TRIGGER_BY_EVENT[h[i].event])

----------------------------------------------------------------------------
(* Claims.                                                                 *)

\* C1 (as stated): every history the write pipeline reaches satisfies H1,
\* H2 (timestamps non-decreasing), H3 and H4, for every artifact type.
C1_PipelineInvariantAsStated ==
    H1(events) /\ H2(events) /\ H3(artifactType, events) /\ H4(events)

\* C1 (amended): every history the write pipeline reaches satisfies H1, H3
\* and H4, and H2 for every adjacent pair of events whose timestamps both
\* parse; createEvent returns, and validateEventOrder skips, an event whose
\* timestamp does not parse.
C1_PipelineInvariant ==
    H1(events) /\ H2Parsed(events) /\ H3(artifactType, events) /\ H4(events)

C1_Witness ==
    /\ Len(events) >= 4
    /\ events[4].event = "in_review"
    /\ events[4].trigger = "children_completed"
    /\ events[2].timestamp = T1305
    /\ events[3].timestamp = T1305
    /\ lastError = "EVENTS_OUT_OF_ORDER"

\* C2: for every artifact type T and lifecycle state S the list
\* getValidTransitions(T, S) has no duplicate, and canTransition(T, S, X) is
\* true exactly when X is an element of that list.
C2_ValidTransitionsMatchCanTransition ==
    (smType \in Range(ARTIFACT_TYPES) /\ smFrom \in Range(ARTIFACT_EVENTS)) =>
        /\ "getValidTransitions" \in smCalled =>
              \A i, j \in 1..Len(smValid) : smValid[i] = smValid[j] => i = j
        /\ {"canTransition", "getValidTransitions"} \subseteq smCalled =>
              (smCan <=> smTo \in Range(smValid))

C2_Witness ==
    /\ {"canTransition", "getValidTransitions"} \subseteq smCalled
    /\ smType = "issue" /\ smFrom = "draft" /\ smTo = "blocked"
    /\ smCan
    /\ smValid = <<"ready", "blocked", "cancelled">>

\* C3: assertTransition returns normally exactly when canTransition is true;
\* otherwise it raises a StateTransitionError carrying type, from, to and the
\* list getValidTransitions(type, from).
C3_AssertTransitionMatchesCanTransition ==
    "assertTransition" \in smCalled =>
        /\ "canTransition" \in smCalled => (smError = NoError <=> smCan)
        /\ smError # NoError =>
              /\ smError.name = "StateTransitionError"
              /\ smError.artifactType = smType
              /\ smError.fromState = smFrom
              /\ smError.toState = smTo
              /\ "getValidTransitions" \in smCalled =>
                    smError.validTransitions = smValid

C3_Witness ==
    /\ smCalled = {"canTransition", "getValidTransitions", "assertTransition"}
    /\ smType = "issue" /\ smFrom = "draft" /\ smTo = "in_progress"
    /\ ~smCan
    /\ smError.name = "StateTransitionError"
    /\ smError.validTransitions = <<"ready", "blocked", "cancelled">>

\* C4: completed and archived are terminal for every artifact type: no
\* transition leaves them, so in a history built by legal transitions a
\* completed or archived event is the last event.
C4_CompletedAndArchivedAreTerminal ==
    /\ \A T \in Range(ARTIFACT_TYPES), X \in Range(ARTIFACT_EVENTS) :
          /\ ~canTransition(T, "completed", X)
          /\ ~canTransition(T, "archived", X)
    /\ \A i \in 1..(Len(events) - 1) :
          events[i].event \notin {"completed", "archived"}

C4_Witness ==
    /\ currentState = "completed"
    /\ lastError = "StateTransitionError"

\* C5: for a history whose timestamps all parse, validateEventOrder returns
\* without raising exactly when the history is non-empty, starts with draft
\* and has non-decreasing instants; equal adjacent instants are accepted.
C5_AcceptsExactlyOrderedDraftFirst ==
    (ordCalled /\ \A i \in 1..Len(ordEvents) : Parses(ordEvents[i].timestamp)) =>
        (ordResult = NoOrderError <=>
            /\ Len(ordEvents) > 0
            /\ ordEvents[1].event = "draft"
            /\ \A i \in 2..Len(ordEvents) :
                  getTime(ordEvents[i].timestamp)
                      >= getTime(ordEvents[i - 1].timestamp))

C5_Witness ==
    /\ ordCalled
    /\ ordResult = NoOrderError
    /\ Len(ordEvents) = 3
    /\ ordEvents[1].timestamp = T1300
    /\ ordEvents[2].timestamp = T1300Offset
    /\ ordEvents[3].timestamp = T1300

\* The 0-based indexes i >= 1 whose instant is strictly before the
\* instant of index i - 1.
Decreases(h) ==
    {i \in 1..(Len(h) - 1) :
        /\ Parses(h[i].timestamp)
        /\ Parses(h[i + 1].timestamp)
        /\ getTime(h[i + 1].timestamp) < getTime(h[i].timestamp)}

\* C6: validateEventOrder reports one error, chosen in a fixed order:
\* EMPTY_EVENTS for an empty history; else FIRST_EVENT_MUST_BE_DRAFT with
\* index 0 if the first state is not draft, whatever the timestamps; else
\* EVENTS_OUT_OF_ORDER at the smallest index i whose timestamp is before that
\* of i - 1, with prevTimestamp and currTimestamp the two strings.
C6_ErrorPrecedence ==
    ordCalled =>
        /\ Len(ordEvents) = 0 => ordResult = [code |-> "EMPTY_EVENTS"]
        /\ (Len(ordEvents) > 0 /\ ordEvents[1].event # "draft") =>
              /\ ordResult.code = "FIRST_EVENT_MUST_BE_DRAFT"
              /\ ordResult.index = 0
        /\ (Len(ordEvents) > 0 /\ ordEvents[1].event = "draft"
                /\ Decreases(ordEvents) # {}) =>
              LET i == CHOOSE k \in Decreases(ordEvents) :
                           \A m \in Decreases(ordEvents) : k <= m
              IN ordResult = [code          |-> "EVENTS_OUT_OF_ORDER",
                              index         |-> i,
                              prevTimestamp |-> ordEvents[i].timestamp,
                              currTimestamp |-> ordEvents[i + 1].timestamp]

C6_Witness ==
    /\ ordCalled
    /\ Len(ordEvents) = 3
    /\ ordEvents[1].event # "draft"
    /\ Decreases(ordEvents) = {1, 2}
    /\ ordResult.code = "FIRST_EVENT_MUST_BE_DRAFT"

\* C7: createEvent returns an event exactly when a trigger is supplied and
\* is allowed for the requested state; a missing trigger raises, a trigger
\* outside the set raises an invalid-trigger error; a returned event
\* satisfies H4 and carries the state, actor and trigger passed, the
\* timestamp and metadata passed when they are given.
C7_CreateEventChecksTrigger ==
    ebCalled =>
        LET given == "trigger" \in DOMAIN ebArgs
            allowed == Range(EVENT_TRIGGER_BY_EVENT[ebArgs.event])
        IN /\ ebResult.ok <=> (given /\ ebArgs.trigger \in allowed)
           /\ ~given => (~ebResult.ok /\ ebResult.error.name = "MissingTrigger")
           /\ (given /\ ebArgs.trigger \notin allowed) =>
                 (~ebResult.ok /\ ebResult.error.name = "InvalidTrigger")
           /\ ebResult.ok =>
                 /\ H4(<<ebResult.value>>)
                 /\ ebResult.value.event = ebArgs.event
                 /\ ebResult.value.actor = ebArgs.actor
                 /\ ebResult.value.trigger = ebArgs.trigger
                 /\ "timestamp" \in DOMAIN ebArgs =>
                       ebResult.value.timestamp = ebArgs.timestamp
                 /\ "metadata" \in DOMAIN ebArgs <=>
                       "metadata" \in DOMAIN ebResult.value
                 /\ "metadata" \in DOMAIN ebArgs =>
                       ebResult.value.metadata = ebArgs.metadata

C7_Witness ==
    /\ ebCalled
    /\ ebResult.ok
    /\ ebArgs.event = "in_progress"
    /\ ebArgs.trigger = "children_started"
    /\ "metadata" \in DOMAIN ebArgs
    /\ ebResult.value.timestamp = TGarbage


\* C8: H4 holds for the system-generated events too: the event that
\* generateCascadeEvent produces for a supported target state (ready,
\* in_progress, in_review, archived), and the ready event that
\* resolveDependencyCompletion appends, carry a trigger that the event
\* builder allows for the event's state.
C8_SystemEventsSatisfyH4 ==
    /\ sysEvent.ok => H4(<<sysEvent.value>>)
    /\ resolution.readyEventAdded =>
          H4(<<dependent.metadata.events[Len(dependent.metadata.events)]>>)

\* The active children of a call, stated from the histories: the children
\* whose last event is a lifecycle state other than cancelled and archived.
ActiveChildren(children) ==
    {i \in 1..Len(children) :
        LET evs == children[i].metadata.events IN
        /\ Len(evs) > 0
        /\ evs[Len(evs)].event \in Range(ARTIFACT_EVENTS) \ {"cancelled", "archived"}}

CurrentStateOf(children, i) ==
    children[i].metadata.events[Len(children[i].metadata.events)].event

AllActiveCompleted(children) ==
    \A i \in ActiveChildren(children) : CurrentStateOf(children, i) = "completed"

SomeActiveStarted(children) ==
    \E i \in ActiveChildren(children) :
        CurrentStateOf(children, i) \in {"in_progress", "in_review", "completed"}

\* C9: when at least one child is active and every active child is
\* completed, shouldCascadeToParent returns {shouldCascade: true, newState:
\* in_review, reason: "All active children completed"} whatever parentState
\* is (ready and absent included): the all-completed rule comes before the
\* first-progressed rule.
C9_AllCompletedGivesInReview ==
    (/\ casCalled
     /\ ActiveChildren(casChildren) # {}
     /\ AllActiveCompleted(casChildren))
        => casDecision = [shouldCascade |-> TRUE,
                          newState      |-> "in_review",
                          reason        |-> "All active children completed"]

C9_Witness ==
    /\ casCalled
    /\ casParentState = "ready"
    /\ Len(casChildren) = 1
    /\ ActiveChildren(casChildren) = {1}
    /\ CurrentStateOf(casChildren, 1) = "completed"
    /\ casDecision.shouldCascade
    /\ casDecision.newState = "in_review"

\* C10: shouldCascadeToParent returns {shouldCascade: true, newState:
\* in_progress, reason: "First active child progressed"} exactly when
\* parentState is ready, some active child is in_progress, in_review or
\* completed, and not every active child is completed; under any other
\* parentState (absent included) children that have started but are not
\* all completed give shouldCascade false.
C10_FirstProgressedOnlyForReadyParent ==
    casCalled =>
        /\ (casDecision = [shouldCascade |-> TRUE,
                           newState      |-> "in_progress",
                           reason        |-> "First active child progressed"])
              <=> (/\ casParentState = "ready"
                   /\ SomeActiveStarted(casChildren)
                   /\ ~AllActiveCompleted(casChildren))
        /\ (/\ casParentState # "ready"
            /\ SomeActiveStarted(casChildren)
            /\ ~AllActiveCompleted(casChildren))
              => ~casDecision.shouldCascade

C10_Witness ==
    /\ casCalled
    /\ casParentState = "ready"
    /\ Len(casChildren) = 2
    /\ ActiveChildren(casChildren) = {1, 2}
    /\ CurrentStateOf(casChildren, 1) = "completed"
    /\ CurrentStateOf(casChildren, 2) = "ready"
    /\ casDecision.shouldCascade
    /\ casDecision.newState = "in_progress"
    /\ casDecision.reason = "First active child progressed"

\* C11: shouldCascadeToParent returns {shouldCascade: false, reason: "No
\* active children to evaluate"} whenever no child is active (the list is
\* empty, or every child's current state is cancelled or archived), whatever
\* parentState is.
C11_NoActiveChildren ==
    (casCalled /\ ActiveChildren(casBefore) = {})
        => casDecision = [shouldCascade |-> FALSE,
                          reason |-> "No active children to evaluate"]

C11_Witness ==
    /\ casCalled
    /\ casParentState = "ready"
    /\ Len(casBefore) = 2
    /\ \A i \in 1..2 : Len(casBefore[i].metadata.events) > 0
    /\ CurrentStateOf(casBefore, 1) = "cancelled"
    /\ CurrentStateOf(casBefore, 2) = "archived"
    /\ casDecision.reason = "No active children to evaluate"

\* A child whose current state is cancelled or archived.
IsInertChild(c) ==
    /\ Len(c.metadata.events) > 0
    /\ c.metadata.events[Len(c.metadata.events)].event \in {"cancelled", "archived"}

IsNotInertChild(c) == ~IsInertChild(c)

WithoutInert(children) == SelectSeq(children, IsNotInertChild)

\* C12: cancelled and archived children are inert: two calls with the same
\* parentState whose children lists differ only by children in state
\* cancelled or archived (any number of them, at any position) return the
\* same decision: same shouldCascade, newState and reason.
C12_InertChildrenDoNotChangeDecision ==
    \A a, b \in 1..Len(casLog) :
        (/\ casLog[a].parentState = casLog[b].parentState
         /\ WithoutInert(casLog[a].children) = WithoutInert(casLog[b].children))
            => casLog[a].decision = casLog[b].decision

C12_Witness ==
    /\ Len(casLog) = 2
    /\ Len(casLog[1].children) = 1
    /\ Len(casLog[2].children) = 3
    /\ WithoutInert(casLog[2].children) = casLog[1].children
    /\ IsInertChild(casLog[2].children[1])
    /\ IsInertChild(casLog[2].children[3])
    /\ casLog[1].decision.reason = "All active children completed"
    /\ casLog[2].decision = casLog[1].decision

\* The state of a child's last event, "none" for a child without events.
LastStateOrNone(c) ==
    IF Len(c.metadata.events) = 0 THEN "none"
    ELSE c.metadata.events[Len(c.metadata.events)].event

\* C13: shouldCascadeToParent is deterministic and reads nothing but each
\* child's last event state and parentState: two calls with the same
\* parentState and children lists of the same length whose children agree,
\* position by position, on the state of their last event (identical
\* inputs included) return identical decisions, field for field.
C13_DecisionDependsOnLastStatesOnly ==
    \A a, b \in 1..Len(casLog) :
        (/\ casLog[a].parentState = casLog[b].parentState
         /\ Len(casLog[a].children) = Len(casLog[b].children)
         /\ \A i \in 1..Len(casLog[a].children) :
               LastStateOrNone(casLog[a].children[i])
                   = LastStateOrNone(casLog[b].children[i]))
            => casLog[a].decision = casLog[b].decision

C13_Witness ==
    /\ Len(casLog) = 2
    /\ Len(casLog[1].children) = 2
    /\ Len(casLog[2].children) = 2
    /\ casLog[1].children[1] = casLog[2].children[1]
    /\ casLog[1].children[2] # casLog[2].children[2]
    /\ Len(casLog[2].children[2].metadata.events) = 5
    /\ \A i \in 1..2 : LastStateOrNone(casLog[1].children[i]) = "completed"
    /\ \A i \in 1..2 : LastStateOrNone(casLog[2].children[i]) = "completed"
    /\ casLog[1].decision = casLog[2].decision
    /\ casLog[2].decision.newState = "in_review"

\* C14: shouldCascadeToParent leaves its inputs unchanged: after the call
\* every child's event history (length, order, every field of every event)
\* equals the copy taken before the call, whatever the decision.
C14_ChildrenUnchanged ==
    casCalled => casChildren = casBefore

C14_Witness ==
    /\ casCalled
    /\ Len(casBefore) = 3
    /\ \A i \in 1..3 : Len(casBefore[i].metadata.events) = 2
    /\ casDecision.shouldCascade
    /\ casDecision.newState = "in_progress"
    /\ casChildren = casBefore

\* The mapping from target state to system trigger as the design document
\* gives it.
FixedCascadeTrigger(newState) ==
    CASE newState = "ready"       -> "dependency_completed"
      [] newState = "in_progress" -> "children_started"
      [] newState = "in_review"   -> "children_completed"
      [] newState = "archived"    -> "parent_archived"

\* The parts of a cascade event that do not depend on the trigger mapping:
\* state, actor and provenance metadata.
CascadeEventCarriesContext ==
    /\ sysEvent.value.event = sysArgs.newState
    /\ sysEvent.value.actor = CascadeActor
    /\ sysEvent.value.metadata =
          [cascade_type      |-> sysArgs.cascadeType,
           trigger_event     |-> sysArgs.triggerEvent.event,
           trigger_actor     |-> sysArgs.triggerEvent.actor,
           trigger_timestamp |-> sysArgs.triggerEvent.timestamp]

C16_UnsupportedTargetStates ==
    sysArgs.called =>
        /\ sysEvent.ok <=>
              sysArgs.newState \in {"ready", "in_progress", "in_review", "archived"}
        /\ ~sysEvent.ok =>
              /\ sysEvent.error.name = "UnsupportedCascadeEvent"
              /\ "value" \notin DOMAIN sysEvent

C16_Witness ==
    /\ sysArgs.called
    /\ sysArgs.newState = "completed"
    /\ sysArgs.cascadeType = "all_children_complete"
    /\ ~sysEvent.ok
    /\ sysEvent.error.name = "UnsupportedCascadeEvent"

\* The entries of the most recent blocked event that are not resolved yet,
\* by position; and the ready events that follow that blocked event.
Outstanding(artifact) ==
    LET evs == artifact.metadata.events
        b == LastBlockedIndex(evs)
    IN IF b = 0 THEN {}
       ELSE {k \in 1..Len(evs[b].metadata.blocking_dependencies) :
                ~evs[b].metadata.blocking_dependencies[k].resolved}

ReadyAfterBlocked(artifact) ==
    LET evs == artifact.metadata.events IN
    {i \in (LastBlockedIndex(evs) + 1)..Len(evs) : evs[i].event = "ready"}

\* C17: over any sequence of resolveDependencyCompletion calls, each fed the
\* artifact the previous one returned: a call that leaves a dependency of
\* the most recent blocked event unresolved appends nothing and reports
\* readyEventAdded = false, so that no ready event exists while one is
\* outstanding; the call that resolves the last outstanding dependency
\* appends exactly one event, a ready event with trigger
\* dependency_completed, and reports readyEventAdded = true.
C17_ReadyOnlyWhenLastDependencyResolves ==
    [][(resolution'.called /\ ~sysArgs'.called /\ depCaller'.edited = "none") =>
          LET evs  == dependent.metadata.events
              evs2 == dependent'.metadata.events
          IN /\ Outstanding(dependent') # {} =>
                   /\ Len(evs2) = Len(evs)
                   /\ ~resolution'.readyEventAdded
                   /\ ReadyAfterBlocked(dependent') = {}
             /\ (Outstanding(dependent) # {} /\ Outstanding(dependent') = {}) =>
                   /\ Len(evs2) = Len(evs) + 1
                   /\ evs2[Len(evs2)].event = "ready"
                   /\ evs2[Len(evs2)].trigger = "dependency_completed"
                   /\ ReadyAfterBlocked(dependent') = {Len(evs2)}
                   /\ resolution'.readyEventAdded]_vars

C17_Witness ==
    /\ resolution.called /\ resolution.readyEventAdded
    /\ depCaller.edited = "none"
    /\ Len(depCaller.snapshot.metadata.events) = 2
    /\ Outstanding(depCaller.snapshot) = {2}
    /\ Len(dependent.metadata.events) = 3
    /\ Outstanding(dependent) = {}
    /\ dependent.metadata.events[3].event = "ready"
    /\ dependent.metadata.events[3].trigger = "dependency_completed"

GraphKeys == {artifacts[i].id : i \in 1..Len(artifacts)}

GraphEdges ==
    {e \in GraphKeys \X GraphKeys :
        \E i \in 1..Len(artifacts) :
            LET m == artifacts[i].artifact.metadata IN
            /\ artifacts[i].id = e[1]
            /\ "relationships" \in DOMAIN m
            /\ "blocked_by" \in DOMAIN m.relationships
            /\ \E k \in 1..Len(m.relationships.blocked_by) :
                   m.relationships.blocked_by[k] = e[2]}

\* A closed walk: p[1] -> p[2] -> ... -> p[Len(p)] -> p[1].
IsClosedWalk(p, edges) ==
    /\ Len(p) > 0
    /\ \A i \in 1..(Len(p) - 1) : <<p[i], p[i + 1]>> \in edges
    /\ <<p[Len(p)], p[1]>> \in edges

SimpleCyclePaths ==
    LET edges == GraphEdges IN
    {p \in SeqsUpTo(GraphKeys, Cardinality(GraphKeys)) :
        IsDistinct(p) /\ IsClosedWalk(p, edges)}

HasCycle == SimpleCyclePaths # {}

\* C19: detectCircularDependencies returns an empty list exactly when the
\* graph whose edges lead from each artifact to the ids of its blocked_by
\* list that are keys of the map has no cycle; a self-dependency is a cycle,
\* and ids that are not keys neither create nor hide one.
C19_EmptyIffAcyclic ==
    valCalled => ((circularIssues = <<>>) <=> ~HasCycle)

\* A map whose first artifact depends on an unknown id and then on itself:
\* the only cycle is that self-dependency, and it is the one issue returned.
C19_Witness ==
    /\ valCalled
    /\ Len(artifacts) = 2
    /\ blockedByOf(artifacts[1].artifact) = <<UnknownId, artifacts[1].id>>
    /\ blockedByOf(artifacts[2].artifact) = <<UnknownId>>
    /\ Len(circularIssues) = 1
    /\ circularIssues[1].cycle = <<artifacts[1].id, artifacts[1].id>>

\* A cycle is a simple cycle up to rotation: the set of the paths that walk it.
Rotations(p) ==
    {[i \in 1..Len(p) |-> p[((i + k - 1) % Len(p)) + 1]] : k \in 0..(Len(p) - 1)}

SimpleCycles == {Rotations(p) : p \in SimpleCyclePaths}

NodesOfCycle(c) == UNION {Range(p) : p \in c}

CyclesPairwiseDisjoint ==
    LET cycles == SimpleCycles IN
    \A c, d \in cycles : c # d => NodesOfCycle(c) \cap NodesOfCycle(d) = {}

\* The issue reports cycle c: its path walks c and returns to its first node.
IssueReports(issue, c) ==
    /\ Len(issue.cycle) > 1
    /\ SubSeq(issue.cycle, 1, Len(issue.cycle) - 1) \in c
    /\ issue.cycle[Len(issue.cycle)] = issue.cycle[1]

\* C20: when all cycles of the blocked_by graph are pairwise node-disjoint,
\* the result holds exactly one issue per cycle, whatever the insertion order
\* and whether or not several cycles are reachable from the same artifact.
C20_EachDisjointCycleReportedOnce ==
    (valCalled /\ CyclesPairwiseDisjoint) =>
        LET cycles == SimpleCycles IN
        /\ \A c \in cycles :
               Cardinality({i \in 1..Len(circularIssues) :
                               IssueReports(circularIssues[i], c)}) = 1
        /\ \A i \in 1..Len(circularIssues) :
               \E c \in cycles : IssueReports(circularIssues[i], c)

\* The hierarchy level an id names, read off its characters: 1 for capital
\* letters alone, 2 and 3 for capital letters followed by one or two dotted
\* numbers, 0 for anything else.
IdLevel(id) ==
    LET c == IdChars(id)
        dots == {i \in 1..Len(c) : c[i] = "."}
        first == IF dots = {} THEN Len(c) + 1
                 ELSE CHOOSE i \in dots : \A j \in dots : i <= j
    IN  IF /\ first > 1
           /\ \A i \in 1..(first - 1) : c[i] \in UpperCaseLetters
           /\ \A i \in first..Len(c) : c[i] \in Digits \cup {"."}
           /\ \A i \in dots : i < Len(c) /\ c[i + 1] # "."
           /\ Cardinality(dots) <= 2
        THEN Cardinality(dots) + 1
        ELSE 0

LevelName(n) == <<"initiative", "milestone", "issue">>[n]

\* The entries of blocked_by lists that cross levels: artifact i, position k.
CrossLevelOccurrences ==
    {o \in (1..Len(artifacts)) \X (1..(MaxLevelDependencies + 1)) :
        LET m == artifacts[o[1]].artifact.metadata IN
        /\ "relationships" \in DOMAIN m
        /\ "blocked_by" \in DOMAIN m.relationships
        /\ o[2] <= Len(m.relationships.blocked_by)
        /\ IdLevel(artifacts[o[1]].id) # 0
        /\ m.relationships.blocked_by[o[2]] \in GraphKeys
        /\ IdLevel(m.relationships.blocked_by[o[2]]) # 0
        /\ IdLevel(m.relationships.blocked_by[o[2]]) # IdLevel(artifacts[o[1]].id)}

OccurrenceSource(o) == artifacts[o[1]].id
OccurrenceDependency(o) ==
    artifacts[o[1]].artifact.metadata.relationships.blocked_by[o[2]]

\* C21: detectCrossLevelDependencies returns one issue for each occurrence
\* of a dependency id d in the blocked_by list of an artifact s where s
\* parses to a type, d is a key of the map and parses to a different type,
\* and nothing else: same-level dependencies, unparseable ids, ids absent
\* from the map and blocks entries produce no issue.
C21_OneIssuePerCrossLevelOccurrence ==
    valCalled =>
        LET occurrences == CrossLevelOccurrences IN
        /\ Len(crossLevelIssues) = Cardinality(occurrences)
        /\ \A s \in GraphKeys, d \in GraphKeys :
              Cardinality({i \in 1..Len(crossLevelIssues) :
                              /\ crossLevelIssues[i].sourceId = s
                              /\ crossLevelIssues[i].dependencyId = d})
                 = Cardinality({o \in occurrences :
                                   /\ OccurrenceSource(o) = s
                                   /\ OccurrenceDependency(o) = d})
        /\ \A i \in 1..Len(crossLevelIssues) :
              /\ crossLevelIssues[i].code = "CROSS_LEVEL_DEPENDENCY"
              /\ crossLevelIssues[i].sourceType
                    = LevelName(IdLevel(crossLevelIssues[i].sourceId))
              /\ crossLevelIssues[i].dependencyType
                    = LevelName(IdLevel(crossLevelIssues[i].dependencyId))

\* Milestone A.1 depends on its initiative A, on its sibling A.2 and on an
\* issue that is not in the map; A is in the map and lists A.1.1 in blocks.
C21_Witness ==
    /\ valCalled
    /\ artifacts = ArtifactMap(<<"A.1", "A">>,
                       <<makeArtifact(<<>>, <<"A", "A.9.9">>),
                         makeArtifact(<<"A.1.1">>, <<>>)>>)
    /\ Len(crossLevelIssues) = 1
    /\ crossLevelIssues[1].message =
          "Cross-level dependency detected: milestone A.1 cannot depend on initiative A."

\* The lists of the artifact stored under key a, empty when it has none.
BlocksOf(a) ==
    LET m == (CHOOSE e \in Range(artifacts) : e.id = a).artifact.metadata
    IN  IF "relationships" \in DOMAIN m THEN Range(m.relationships.blocks) ELSE {}

BlockedByOf(a) ==
    LET m == (CHOOSE e \in Range(artifacts) : e.id = a).artifact.metadata
    IN  IF "relationships" \in DOMAIN m THEN Range(m.relationships.blocked_by)
        ELSE {}

\* a refers to b, in blocks or in blocked_by, and b does not answer it.
NonReciprocated(a, b) ==
    \/ b \in BlocksOf(a) /\ a \notin BlockedByOf(b)
    \/ b \in BlockedByOf(a) /\ a \notin BlocksOf(b)

InconsistentPairs ==
    {{a, b} : a \in GraphKeys, b \in GraphKeys} \cap
    {p \in SUBSET GraphKeys :
        \E a \in p, b \in p : p = {a, b} /\ NonReciprocated(a, b)}

\* The four messages that can report the pair of a and b.
PairMessages(a, b) ==
    {"'" \o x \o "' lists '" \o y \o "' in " \o l[1] \o " but the reciprocal "
         \o l[2] \o " entry is missing."
        : x \in {a, b}, y \in {a, b},
          l \in {<<"blocks", "blocked_by">>, <<"blocked_by", "blocks">>}}
    \ {m \in {"'" \o x \o "' lists '" \o x \o "' in " \o l[1]
                 \o " but the reciprocal " \o l[2] \o " entry is missing."
                 : x \in {a, b},
                   l \in {<<"blocks", "blocked_by">>, <<"blocked_by", "blocks">>}}
          : a # b}

PairIssues ==
    {i \in 1..Len(consistencyIssues) :
        consistencyIssues[i].code = "RELATIONSHIP_INCONSISTENT_PAIR"}

\* C22: RELATIONSHIP_INCONSISTENT_PAIR is reported exactly once per
\* unordered pair of artifacts of the map with at least one non-reciprocated
\* reference between them, whichever artifact, list, number of entries or
\* map order reveals it; a pair whose references are all reciprocated is
\* never reported.
C22_InconsistentPairReportedOnce ==
    valCalled =>
        LET pairs == InconsistentPairs IN
        /\ Cardinality(PairIssues) = Cardinality(pairs)
        /\ \A p \in pairs :
              \E a \in p, b \in p :
                 /\ p = {a, b}
                 /\ Cardinality({i \in PairIssues :
                        consistencyIssues[i].message \in PairMessages(a, b)}) = 1

\* A.1 and A.2 each list the other in blocks and neither lists the other in
\* blocked_by: both entries are unanswered, and the pair is reported once,
\* at the entry of the artifact that comes first in the map.
C22_Witness ==
    /\ valCalled
    /\ artifacts = ArtifactMap(<<"A.2", "A.1">>,
                       <<makeArtifact(<<"A.1">>, <<>>),
                         makeArtifact(<<"A.2">>, <<>>)>>)
    /\ Len(consistencyIssues) = 1
    /\ consistencyIssues[1].path = "metadata.relationships.blocks[0]"
    /\ consistencyIssues[1].message =
          "'A.2' lists 'A.1' in blocks but the reciprocal blocked_by entry is missing."

\* The references to ids that are not keys of the map: artifact, list, index.
UnknownReferences ==
    {r \in (1..Len(artifacts)) \X {"blocks", "blocked_by"} \X (1..MaxReferences + 1) :
        LET m == artifacts[r[1]].artifact.metadata IN
        /\ "relationships" \in DOMAIN m
        /\ r[3] <= Len(m.relationships[r[2]])
        /\ m.relationships[r[2]][r[3]] \notin GraphKeys}

Reciprocal ==
    \A a \in GraphKeys, b \in GraphKeys :
        (b \in BlocksOf(a)) <=> (a \in BlockedByOf(b))

\* C23: validateRelationshipConsistency returns an empty list exactly when
\* every id listed in blocks or blocked_by is a key of the map and, for all
\* artifacts A and B of the map, B is in A.blocks exactly when A is in
\* B.blocked_by; every reference to an id absent from the map yields a
\* RELATIONSHIP_UNKNOWN_ARTIFACT issue.
C23_EmptyIffKnownAndReciprocal ==
    valCalled =>
        /\ (consistencyIssues = <<>>) <=> (UnknownReferences = {} /\ Reciprocal)
        /\ \A r \in UnknownReferences :
              \E i \in 1..Len(consistencyIssues) :
                 /\ consistencyIssues[i].code = "RELATIONSHIP_UNKNOWN_ARTIFACT"
                 /\ consistencyIssues[i].path =
                       "metadata.relationships." \o r[2] \o "["
                           \o ToString(r[3] - 1) \o "]"
                 /\ consistencyIssues[i].message =
                       "'" \o artifacts[r[1]].artifact.metadata.relationships[r[2]][r[3]]
                           \o "' referenced by " \o artifacts[r[1]].id
                           \o " was not found."
        /\ Cardinality({i \in 1..Len(consistencyIssues) :
               consistencyIssues[i].code = "RELATIONSHIP_UNKNOWN_ARTIFACT"})
              = Cardinality(UnknownReferences)

\* A.1 blocks A.2 and A.2 is blocked by A.1: every reference is known and
\* answered, and nothing is reported.
C23_Witness ==
    /\ valCalled
    /\ artifacts = ArtifactMap(<<"A.1", "A.2">>,
                       <<makeArtifact(<<"A.2">>, <<>>),
                         makeArtifact(<<>>, <<"A.1">>)>>)
    /\ consistencyIssues = <<>>

\* ref is a sibling of own: both name the same level, and below the
\* initiative level they share the segments above their own.
IsSiblingId(own, ref) ==
    LET a == splitDots(IdChars(own))
        b == splitDots(IdChars(ref))
    IN  /\ IdLevel(own) # 0
        /\ IdLevel(ref) = IdLevel(own)
        /\ \A n \in 1..(IdLevel(own) - 1) : a[n] = b[n]

\* Validation was given the artifact's own id: an id of the artifact's type.
GivenOwnId ==
    /\ enfCalled
    /\ "artifactId" \in DOMAIN enfArgs.options
    /\ IdLevel(enfArgs.options.artifactId) # 0
    /\ LevelName(IdLevel(enfArgs.options.artifactId)) = enfArgs.type

\* The paths of the relationship entries that are not siblings.
NonSiblingPaths ==
    {"metadata.relationships." \o r[1] \o "[" \o ToString(r[2] - 1) \o "]" :
        r \in {x \in {"blocks", "blocked_by"} \X (1..(MaxSiblingReferences + 1)) :
                 /\ x[2] <= Len(enfArgs.metadata.relationships[x[1]])
                 /\ ~IsSiblingId(enfArgs.options.artifactId,
                                 enfArgs.metadata.relationships[x[1]][x[2]])}}

\* C24: given the artifact's own id, validation accepts the relationships
\* exactly when every id in blocks and blocked_by is, for an initiative, an
\* initiative id; for a milestone, a milestone id of the same initiative;
\* for an issue, an issue id of the same initiative and milestone; any
\* other id makes it raise a schema error that lists that entry.
C24_SiblingOnlyScope ==
    GivenOwnId =>
        /\ enfResult.ok <=> (NonSiblingPaths = {})
        /\ ~enfResult.ok =>
              /\ enfResult.error.details.kind = "schema"
              /\ Len(enfResult.error.details.issues)
                    = Cardinality(NonSiblingPaths)
              /\ {enfResult.error.details.issues[i].path :
                     i \in 1..Len(enfResult.error.details.issues)}
                    = NonSiblingPaths

\* Issue A.1.1 blocks its sibling A.1.2 and is blocked by A.2.1, an issue of
\* another milestone of the same initiative: one issue, for that entry.
C24_Witness ==
    /\ enfCalled
    /\ enfArgs.type = "issue"
    /\ enfArgs.options = [artifactId |-> "A.1.1"]
    /\ enfArgs.metadata.relationships =
          [blocks |-> <<"A.1.2">>, blocked_by |-> <<"A.2.1">>]
    /\ ~enfResult.ok
    /\ enfResult.error.message = "Relationships validation failed (1 issue)"
    /\ enfResult.error.details.issues[1].message =
          "'A.2.1' must start with 'A.1.' to stay within milestone A.1."

\* The strings of the shape YYYY-MM-DDTHH:MM:SSZ among the model's.
SecondPrecisionIsoUtc == {T1300, T1305, T1310, TBadMonth}

\* C25: createBlockedEvent raises, and returns no event, when the list is
\* empty or some entry has resolved true together with a resolved_at that
\* is not a second-precision ISO-8601 UTC timestamp; otherwise it returns
\* an event with state blocked and trigger has_dependencies whose
\* blocking_dependencies has one entry per input entry, in the same order,
\* each with resolved an explicit boolean (false when omitted).
C25_BlockedEventContract ==
    (ebCalled /\ "blockingDependencies" \in DOMAIN ebArgs) =>
        LET deps == ebArgs.blockingDependencies
            mustRaise ==
                \/ Len(deps) = 0
                \/ \E k \in 1..Len(deps) :
                      /\ "resolved" \in DOMAIN deps[k]
                      /\ deps[k].resolved
                      /\ "resolved_at" \in DOMAIN deps[k]
                      /\ deps[k].resolved_at \notin SecondPrecisionIsoUtc
        IN  /\ mustRaise <=> ~ebResult.ok
            /\ ebResult.ok =>
                  LET out == ebResult.value.metadata.blocking_dependencies IN
                  /\ ebResult.value.event = "blocked"
                  /\ ebResult.value.trigger = "has_dependencies"
                  /\ Len(out) = Len(deps)
                  /\ \A k \in 1..Len(deps) :
                        /\ out[k].artifact_id = deps[k].artifact_id
                        /\ out[k].resolved =
                              ("resolved" \in DOMAIN deps[k] /\ deps[k].resolved)

\* C26: every positive cascade decision is a legal move for the parent:
\* when shouldCascadeToParent(children, parentState) returns shouldCascade
\* true with newState, canTransition(T, parentState, newState) holds for
\* the parent types milestone and initiative, for every parentState given.
C26_CascadeDecisionIsLegalMove ==
    (casCalled /\ casDecision.shouldCascade /\ casParentState # Undefined) =>
        \A type \in {"milestone", "initiative"} :
            canTransition(type, casParentState, casDecision.newState)

\* C27: for target state archived, generateCascadeEvent uses trigger
\* parent_completed when the parent's completion causes the cascade
\* (triggering event completed, cascade type parent_completion_archive) and
\* parent_archived when its cancellation does (triggering event cancelled,
\* cascade type parent_cancel_archive); either way the event's state is
\* archived, its trigger is one the event builder allows for archived, and
\* its metadata records the triggering event.
C27_ArchivedTriggerFollowsCause ==
    (sysArgs.called /\ sysArgs.newState = "archived") =>
        /\ sysEvent.ok
        /\ sysEvent.value.event = "archived"
        /\ includes(EVENT_TRIGGER_BY_EVENT.archived, sysEvent.value.trigger)
        /\ (/\ sysArgs.triggerEvent.event = "completed"
            /\ sysArgs.cascadeType = "parent_completion_archive")
              => sysEvent.value.trigger = "parent_completed"
        /\ (/\ sysArgs.triggerEvent.event = "cancelled"
            /\ sysArgs.cascadeType = "parent_cancel_archive")
              => sysEvent.value.trigger = "parent_archived"
        /\ sysEvent.value.metadata.trigger_event = sysArgs.triggerEvent.event
        /\ sysEvent.value.metadata.trigger_actor = sysArgs.triggerEvent.actor
        /\ sysEvent.value.metadata.trigger_timestamp
              = sysArgs.triggerEvent.timestamp

C27_Witness ==
    /\ sysArgs.called /\ sysEvent.ok
    /\ sysArgs.newState = "archived"
    /\ sysArgs.cascadeType = "parent_cancel_archive"
    /\ sysArgs.triggerEvent.event = "cancelled"
    /\ sysArgs.triggerEvent.actor = Actor
    /\ sysEvent.value.trigger = "parent_archived"
    /\ sysEvent.value.metadata.trigger_event = "cancelled"

\* The ids of a path separated by " -> ", left to right.
RECURSIVE ArrowPath(_)
ArrowPath(p) ==
    IF Len(p) = 0 THEN ""
    ELSE IF Len(p) = 1 THEN p[1]
    ELSE ArrowPath(SubSeq(p, 1, Len(p) - 1)) \o " -> " \o p[Len(p)]

BlockingEntries(artifact) ==
    LET evs == artifact.metadata.events
        at  == {i \in 1..Len(evs) : evs[i].event = "blocked"}
        b   == CHOOSE i \in at : \A j \in at : j <= i
    IN  evs[b].metadata.blocking_dependencies

WellFormedHistory(evs) ==
    /\ Len(evs) > 0
    /\ evs[1].event = "draft"
    /\ \A i \in 2..Len(evs) :
          /\ getTime(evs[i].timestamp) >= getTime(evs[i - 1].timestamp)
          /\ canTransition("issue", evs[i - 1].event, evs[i].event)

UnparseablePairs(h) ==
    {i \in 1..(Len(h) - 1) :
        isNaN(getTime(h[i].timestamp)) \/ isNaN(getTime(h[i + 1].timestamp))}

\* C31: validateEventOrder never raises because of a timestamp that does
\* not parse: an adjacent pair with such a timestamp is skipped and the
\* check goes on with the next pair, so that an error is raised exactly for
\* an empty history, a first event that is not draft, or a strict decrease
\* between two adjacent parseable timestamps, and an EVENTS_OUT_OF_ORDER
\* error never points at a skipped pair.
C31_UnparseableTimestampsAreSkipped ==
    ordCalled =>
        /\ ordResult # NoOrderError <=>
              \/ Len(ordEvents) = 0
              \/ ordEvents[1].event # "draft"
              \/ \E i \in 1..(Len(ordEvents) - 1) :
                    /\ i \notin UnparseablePairs(ordEvents)
                    /\ getTime(ordEvents[i + 1].timestamp)
                          < getTime(ordEvents[i].timestamp)
        /\ ordResult.code
              \in {"none", "EMPTY_EVENTS", "FIRST_EVENT_MUST_BE_DRAFT",
                   "EVENTS_OUT_OF_ORDER"}
        /\ ordResult.code = "EVENTS_OUT_OF_ORDER" =>
              ordResult.index \notin UnparseablePairs(ordEvents)

\* The first pair is skipped for its unparseable timestamp and the second
\* pair is then found to decrease.
C31_Witness ==
    /\ ordCalled
    /\ Len(ordEvents) = 3
    /\ ordEvents[1].event = "draft"
    /\ ordEvents[1].timestamp = TGarbage
    /\ ordEvents[2].timestamp = T1310
    /\ ordEvents[3].timestamp = T1300
    /\ UnparseablePairs(ordEvents) = {1}
    /\ ordResult.code = "EVENTS_OUT_OF_ORDER"
    /\ ordResult.index = 2

\* C32: a history validateEventOrder accepts is chronologically sound over
\* all its parseable events: for every two positions i < j whose timestamps
\* both parse, adjacent or not, the instant of i is at or before that of j.
C32_AcceptedHistoryIsChronological ==
    (ordCalled /\ ordResult = NoOrderError) =>
        \A i, j \in 1..Len(ordEvents) :
            (/\ i < j
             /\ ~isNaN(getTime(ordEvents[i].timestamp))
             /\ ~isNaN(getTime(ordEvents[j].timestamp)))
                => getTime(ordEvents[i].timestamp)
                     <= getTime(ordEvents[j].timestamp)

\* C33: cascade re-evaluation stabilises: when shouldCascadeToParent asks
\* for a move of the parent to s (in_progress or in_review) and the parent
\* adopts s, the call on the same children with parentState s returns
\* shouldCascade = false.
C33_ReevaluationStabilises ==
    (/\ Len(casLog) = 2
     /\ casLog[1].decision.shouldCascade
     /\ casLog[2].children = casLog[1].children
     /\ casLog[2].parentState = casLog[1].decision.newState) =>
        ~casLog[2].decision.shouldCascade

LifecycleStates ==
    {"draft", "ready", "blocked", "cancelled",
     "in_progress", "in_review", "completed", "archived"}

\* The states some sequence of legal transitions leads to from a state of
\* the set: the set closed under canTransition.
RECURSIVE ReachableFrom(_, _)
ReachableFrom(type, states) ==
    LET next == states \cup {x \in LifecycleStates :
                                \E s \in states : canTransition(type, s, x)}
    IN  IF next = states THEN states ELSE ReachableFrom(type, next)

HappyPath == <<"draft", "ready", "in_progress", "in_review", "completed">>

HistoryStates == [i \in 1..Len(events) |-> events[i].event]

\* C34: reachability from draft under the transition tables: for an issue
\* every lifecycle state is reachable by legal transitions; for a milestone
\* and for an initiative every state but blocked is, and blocked is not
\* reachable by any sequence of legal transitions, so that no history of
\* theirs holds a blocked event; for every type each step of draft, ready,
\* in_progress, in_review, completed is legal.
C34_ReachabilityFromDraft ==
    LET reachable == ReachableFrom(artifactType, {"draft"}) IN
    Len(events) > 0 =>
        /\ currentState \in reachable
        /\ artifactType = "issue" => reachable = LifecycleStates
        /\ artifactType \in {"milestone", "initiative"} =>
              /\ reachable = LifecycleStates \ {"blocked"}
              /\ \A i \in 1..Len(events) : events[i].event # "blocked"
              /\ assertTransition(artifactType, currentState, "blocked")
                    # NoError
        /\ \A n \in 1..(Len(HappyPath) - 1) :
              HistoryStates = SubSeq(HappyPath, 1, n) =>
                  /\ canTransition(artifactType, currentState, HappyPath[n + 1])
                  /\ assertTransition(artifactType, currentState,
                                      HappyPath[n + 1]) = NoError

\* An initiative taken along the whole sequence, one legal step at a time.
C34_Witness ==
    /\ artifactType = "initiative"
    /\ HistoryStates = HappyPath
    /\ lastError = "none"

\* C35: the three transition tables agree everywhere but in one entry: for
\* every pair of states other than (draft, blocked) canTransition gives the
\* same answer for issue, milestone and initiative, and
\* canTransition(T, draft, blocked) is true for T = issue only; every table
\* has an entry for each of the eight lifecycle states.
C35_TablesAgreeButDraftBlocked ==
    (/\ "canTransition" \in smCalled
     /\ smType \in {"issue", "milestone", "initiative"}
     /\ smFrom \in LifecycleStates
     /\ smTo \in LifecycleStates) =>
        /\ <<smFrom, smTo>> = <<"draft", "blocked">> =>
              smCan = (smType = "issue")
        /\ <<smFrom, smTo>> # <<"draft", "blocked">> =>
              \A T \in {"issue", "milestone", "initiative"} :
                  canTransition(T, smFrom, smTo) = smCan
        /\ DOMAIN STATE_TRANSITIONS[smType] = LifecycleStates

C35_Witness ==
    /\ "canTransition" \in smCalled
    /\ smType = "milestone"
    /\ smFrom = "draft"
    /\ smTo = "blocked"
    /\ smCan = FALSE

\* The active children of a call that are not completed.
IncompleteChildren(children) ==
    {i \in ActiveChildren(children) : CurrentStateOf(children, i) # "completed"}

\* C36: when shouldCascadeToParent declines although active children
\* exist, its reason counts exactly the active children that are not
\* completed: "1 active child incomplete" for a count n of 1 and
\* "<n> active children incomplete" otherwise; completed, cancelled and
\* archived children are not counted, and n is at least 1.
C36_ReasonCountsIncompleteActiveChildren ==
    (/\ casCalled
     /\ ActiveChildren(casBefore) # {}
     /\ ~casDecision.shouldCascade) =>
        LET n == Cardinality(IncompleteChildren(casBefore)) IN
        /\ n >= 1
        /\ n = 1 => casDecision.reason = "1 active child incomplete"
        /\ n # 1 => casDecision.reason
                       = ToString(n) \o " active children incomplete"

\* One child of each kind: completed, in progress and cancelled.
C36_Witness ==
    /\ casCalled
    /\ casParentState = "in_progress"
    /\ Len(casBefore) = 3
    /\ \A i \in 1..3 : Len(casBefore[i].metadata.events) > 0
    /\ CurrentStateOf(casBefore, 1) = "completed"
    /\ CurrentStateOf(casBefore, 2) = "in_progress"
    /\ CurrentStateOf(casBefore, 3) = "cancelled"
    /\ casDecision = [shouldCascade |-> FALSE,
                      reason |-> "1 active child incomplete"]

\* The code the precedence gives a relationship id, "none" for a sibling.
\* everyLevel: the initiative segment is compared for initiatives as well.
ExpectedSiblingCode(own, ref, everyLevel) ==
    LET a == splitDots(IdChars(own))
        b == splitDots(IdChars(ref))
    IN  IF IdLevel(ref) = 0 THEN "RELATIONSHIP_INVALID_ID"
        ELSE IF IdLevel(ref) # IdLevel(own) THEN "RELATIONSHIP_WRONG_TYPE"
        ELSE IF (everyLevel \/ IdLevel(own) >= 2) /\ a[1] # b[1]
        THEN "RELATIONSHIP_DIFFERENT_INITIATIVE"
        ELSE IF IdLevel(own) = 3 /\ a[2] # b[2]
        THEN "RELATIONSHIP_DIFFERENT_MILESTONE"
        ELSE "none"

IsReported(entry) == entry.code # "none"

\* Path and expected code of the entries, blocks first, each list in order.
ExpectedSiblingIssues(everyLevel) ==
    LET r   == enfArgs.metadata.relationships
        own == enfArgs.options.artifactId
        of(name) ==
            [k \in 1..Len(r[name]) |->
                [path |-> "metadata.relationships." \o name \o "["
                             \o ToString(k - 1) \o "]",
                 code |-> ExpectedSiblingCode(own, r[name][k], everyLevel)]]
    IN  SelectSeq(of("blocks") \o of("blocked_by"), IsReported)

\* Path and code of the issues the call raised, none when it returned.
RaisedSiblingIssues ==
    IF enfResult.ok THEN <<>>
    ELSE [i \in 1..Len(enfResult.error.details.issues) |->
             [path |-> enfResult.error.details.issues[i].path,
              code |-> enfResult.error.details.issues[i].code]]

\* C37 as stated: the initiative segment is compared for every type, so an
\* initiative that references another initiative gets
\* RELATIONSHIP_DIFFERENT_INITIATIVE.
C37_SiblingPrecedenceAsStated ==
    GivenOwnId => RaisedSiblingIssues = ExpectedSiblingIssues(TRUE)

\* C37: the sibling-scope pass yields at most one issue per relationship
\* entry, its code chosen by precedence: RELATIONSHIP_INVALID_ID when the id
\* does not parse; else RELATIONSHIP_WRONG_TYPE when its level is not the
\* artifact's; else, for milestones and issues,
\* RELATIONSHIP_DIFFERENT_INITIATIVE when its initiative segment differs;
\* else, for issues, RELATIONSHIP_DIFFERENT_MILESTONE when its milestone
\* number differs.  An initiative may reference any initiative.  The issues
\* of blocks entries come before those of blocked_by entries, each with the
\* path of its list index.
C37_SiblingPrecedence ==
    GivenOwnId => RaisedSiblingIssues = ExpectedSiblingIssues(FALSE)

\* Issue A.1.1 is blocked by B.1.1, which differs in both initiative and
\* milestone scope, and blocks the milestone A.2.
C37_Witness ==
    /\ enfCalled
    /\ enfArgs.type = "issue"
    /\ enfArgs.options = [artifactId |-> "A.1.1"]
    /\ enfArgs.metadata.relationships =
          [blocks |-> <<"A.2">>, blocked_by |-> <<"B.1.1">>]
    /\ RaisedSiblingIssues =
          <<[path |-> "metadata.relationships.blocks[0]",
             code |-> "RELATIONSHIP_WRONG_TYPE"],
            [path |-> "metadata.relationships.blocked_by[0]",
             code |-> "RELATIONSHIP_DIFFERENT_INITIATIVE"]>>

\* What C38 says of one call but for the bound on the recursion: every
\* node is expanded at most once, no node is left in the stack when the
\* exploration of a root returns, the Map and its lists are as before.
TraversalIsBounded(before, after, issues, run) ==
    /\ issues = run.issues
    /\ \A i, j \in 1..Len(run.expanded) :
          i # j => run.expanded[i] # run.expanded[j]
    /\ \A i \in 1..Len(run.expanded) :
          \E k \in 1..Len(before) : before[k].id = run.expanded[i]
    /\ run.leftInStack = {}
    /\ after = before

\* C38 as stated: the nesting of explore calls never exceeds the number of
\* artifacts.
C38_TraversalTerminatesAsStated ==
    [][(~valCalled /\ valCalled') =>
          LET run == detectCircularDependenciesRun(artifacts) IN
          /\ TraversalIsBounded(artifacts, artifacts', circularIssues', run)
          /\ run.depth <= Len(artifacts)]_vars

\* C38: detectCircularDependencies terminates on every finite artifact
\* map, cycles and self-loops included: each node is marked visited at most
\* once and never expanded again, so that at most as many nodes as there
\* are artifacts are ever in the stack; the nesting of explore calls never
\* exceeds the number of artifacts plus one, the innermost call being the
\* one that returns at once on a node in the stack or already visited; no
\* node is left marked in-stack when the exploration of a root returns; the
\* artifact map and its relationship lists are unchanged by the call.
C38_TraversalTerminates ==
    [][(~valCalled /\ valCalled') =>
          LET run == detectCircularDependenciesRun(artifacts) IN
          /\ TraversalIsBounded(artifacts, artifacts', circularIssues', run)
          /\ run.depth <= Len(artifacts) + 1]_vars

\* A cycle through all three artifacts: three nodes expanded, a fourth
\* call of explore that finds the first node in the stack.
C38_Witness ==
    /\ valCalled
    /\ Len(artifacts) = 3
    /\ blockedByOf(artifacts[1].artifact) = <<artifacts[2].id>>
    /\ blockedByOf(artifacts[2].artifact) = <<artifacts[3].id>>
    /\ blockedByOf(artifacts[3].artifact) = <<artifacts[1].id>>
    /\ Len(circularIssues) = 1
    /\ detectCircularDependenciesRun(artifacts).expanded
         = <<artifacts[1].id, artifacts[2].id, artifacts[3].id>>
    /\ detectCircularDependenciesRun(artifacts).depth = 4
    /\ detectCircularDependenciesRun(artifacts).leftInStack = {}

----------------------------------------------------------------------------
(* C39: the sibling check of each artifact against the cross-level check   *)
(* of the whole Map.                                                       *)

\* The relationships handed to the sibling check: a list the stored
\* artifact does not carry is read as the empty list.
RelationshipsOf(artifact) ==
    LET has == "relationships" \in DOMAIN artifact.metadata
        rel == IF has THEN artifact.metadata.relationships ELSE [blocks |-> <<>>]
    IN  [blocks     |-> IF "blocks" \in DOMAIN rel THEN rel.blocks ELSE <<>>,
         blocked_by |-> IF has /\ "blocked_by" \in DOMAIN rel
                        THEN rel.blocked_by ELSE <<>>]

\* enforceRelationshipConstraints returns normally for the entry, called
\* with the entry's key as artifactId and the type that key names.
PassesSiblingValidation(entry) ==
    \E type \in {"initiative", "milestone", "issue"} :
        enforceRelationshipConstraints(
            type,
            [title |-> entry.artifact.metadata.title,
             relationships |-> RelationshipsOf(entry.artifact)],
            [artifactId |-> entry.id]) = Returned

\* C39: once detectCrossLevelDependencies has run on a Map in which every
\* artifact's relationships pass the sibling validation against the
\* artifact's own id, it has returned the empty list.
C39_SiblingCheckImpliesNoCrossLevel ==
    (/\ valCalled
     /\ \A i \in 1..Len(artifacts) : PassesSiblingValidation(artifacts[i]))
        => crossLevelIssues = <<>>

\* Two milestones of one initiative, each blocked by the other: both pass
\* the sibling validation with a dependency that is a key of the Map.
C39_Witness ==
    /\ valCalled
    /\ Len(artifacts) = 2
    /\ artifacts[1].id = "A.1" /\ artifacts[2].id = "A.2"
    /\ dependenciesOf(artifacts[1].artifact) = <<"A.2">>
    /\ dependenciesOf(artifacts[2].artifact) = <<"A.1">>
    /\ \A i \in 1..2 : PassesSiblingValidation(artifacts[i])
    /\ crossLevelIssues = <<>>

====
